---- MODULE Spec2Model ----
(***************************************************************************)
(* The OAuth authorization-code relay of backend/main.py: the two          *)
(* in-memory stores (auth_sessions, auth_codes), the three public           *)
(* operations (authorize, provider callback, token) and the two outbound    *)
(* collaborators (provider token endpoint, federated sign-in).              *)
(*                                                                         *)
(* Every handler is an `async def` whose body never suspends (the outbound  *)
(* calls are blocking requests.post calls), so a handler runs to completion *)
(* on the event loop before another one starts: one action per handler.     *)
(* Concurrent requests are the different orders in which the handler        *)
(* actions fire. A handler is an operator from the request, the state and   *)
(* the answers of the outside world to its result (the response, what it    *)
(* did on the way, the stores it leaves); its action applies the result.    *)
(*                                                                         *)
(* Python values: str and None are strings (None is the string "None"),     *)
(* a dict is a function from its keys, Optional[dict] results are the       *)
(* empty sequence (None) or a one-element sequence. A str that goes into a  *)
(* URL is a sequence of atoms: an atom is a run of unreserved characters    *)
(* (letters, digits, - . _ ~), one other character, or one percent-escape.  *)
(***************************************************************************)
EXTENDS Integers, Sequences, FiniteSets, TLC

VARIABLES
    now,            \* time.time(), in seconds
    env,            \* the names of the environment variables that are set
    auth_sessions,  \* main.py:32
    auth_codes,     \* main.py:33
    uuids,          \* how many uuid4() values have been drawn
    provider_used,  \* <<provider, code>>: authorization codes a provider has accepted
    stored_at,      \* history: for every session and code id, the time it was stored
    origin,         \* history: for every one-time code ever stored, how it was issued
    grants,         \* history: for every one-time code, how many 200 /token responses
    failed,         \* history: the sessions for which a provider exchange ended with 400
    calls,          \* concurrent callers of the store functions: where each one is
    extraction      \* llm.py: the memories the model has answered, and those returned

vars == <<now, env, auth_sessions, auth_codes, uuids, provider_used, stored_at, origin,
          grants, failed, calls, extraction>>

-----------------------------------------------------------------------------
(* Bounds *)

MaxUuids == 3       \* uuid4() draws in one behaviour
MaxTime == 300      \* the clock stops advancing here
MaxGrants == 2      \* the history counter of 200 responses saturates here
MaxMemories == 5    \* entries in one answer of the model

(* Program constants *)

SESSION_TTL == 300
CODE_TTL == 300
CLIENT_SECRET_LIFETIME == 3600
EXPIRES_IN == 3600
REDIRECT_STATUS == 307

None == "None"

TickStep == SESSION_TTL \div 2

-----------------------------------------------------------------------------
(* Python helpers *)

Truthy(s) == s # None /\ s # ""

DictGet(d, k) == IF k \in DOMAIN d THEN d[k] ELSE None

DictSet(d, k, v) == [x \in DOMAIN d \cup {k} |-> IF x = k THEN v ELSE d[x]]

DictPop(d, k) == [x \in DOMAIN d \ {k} |-> d[x]]

EmptyDict == [x \in {} |-> None]

Min(a, b) == IF a < b THEN a ELSE b

UuidPool == <<"u1", "u2", "u3", "u4", "u5", "u6">>

(* Mutant: the generator hands out the same identifier again *)
uuid4_repeating(n) == UuidPool[1]

uuid4(n) == UuidPool[n + 1]

Issued == {UuidPool[i] : i \in 1..uuids}

(* json.dumps / json.loads on a flat dict of str | None values: the text is  *)
(* the sequence of members, each value a JSON literal.                      *)
JsonLiteral(v) == IF v = None THEN [t |-> "null"] ELSE [t |-> "string", s |-> v]

PyValue(lit) == IF lit.t = "null" THEN None ELSE lit.s

json_dumps(keys, d) == [i \in 1..Len(keys) |-> <<keys[i], JsonLiteral(d[keys[i]])>>]

(* Mutant: every key gets the value of the first member *)
json_loads_first(text) ==
    [k \in {text[i][1] : i \in 1..Len(text)} |-> PyValue(text[1][2])]

json_loads(text) ==
    [k \in {text[i][1] : i \in 1..Len(text)} |->
        PyValue(text[CHOOSE i \in 1..Len(text) : text[i][1] = k][2])]

-----------------------------------------------------------------------------
(* Configuration: os.getenv *)

EnvVars == {"APPLE_CLIENT_ID", "APPLE_TEAM_ID", "APPLE_KEY_ID", "APPLE_PRIVATE_KEY",
            "GOOGLE_CLIENT_ID", "GOOGLE_CLIENT_SECRET", "FIREBASE_API_KEY"}

EnvValue == [APPLE_CLIENT_ID |-> "me.omi.computer", APPLE_TEAM_ID |-> "TEAM123",
             APPLE_KEY_ID |-> "KEY123", APPLE_PRIVATE_KEY |-> "PEM",
             GOOGLE_CLIENT_ID |-> "gid.apps.googleusercontent.com",
             GOOGLE_CLIENT_SECRET |-> "gsecret", FIREBASE_API_KEY |-> "fbkey"]

getenv(e, name) == IF name \in e THEN EnvValue[name] ELSE None

(* os.getenv('BASE_API_URL', 'http://localhost:8080'), BASE_API_URL not set *)
api_base_url == <<"http", ":", "/", "/", "localhost", ":", "8080">>

(* Every variable set, or exactly one of them missing. *)
Configs == {EnvVars} \cup {EnvVars \ {v} : v \in EnvVars}

-----------------------------------------------------------------------------
(* The stores *)

set_auth_session(sessions, session_id, data, ttl) ==
    DictSet(sessions, session_id, [data |-> data, expires |-> now + ttl])

(* Mutant: an entry is still returned at its expiry instant *)
get_auth_session_inclusive(sessions, session_id) ==
    IF session_id \in DOMAIN sessions /\ sessions[session_id].expires >= now
    THEN <<sessions[session_id].data>>
    ELSE <<>>

(* Mutant: the expiry is not looked at *)
get_auth_session_forever(sessions, session_id) ==
    IF session_id \in DOMAIN sessions THEN <<sessions[session_id].data>> ELSE <<>>

get_auth_session(sessions, session_id) ==
    IF session_id \in DOMAIN sessions /\ sessions[session_id].expires > now
    THEN <<sessions[session_id].data>>
    ELSE <<>>

(* Mutant: the store keeps the latest code only *)
set_auth_code_single(codes, code, data, ttl) ==
    DictSet(EmptyDict, code, [data |-> data, expires |-> now + ttl])

set_auth_code(codes, code, data, ttl) ==
    DictSet(codes, code, [data |-> data, expires |-> now + ttl])

(* Mutant: a code is still returned at its expiry instant *)
get_auth_code_inclusive(codes, code) ==
    IF code \in DOMAIN codes /\ codes[code].expires >= now
    THEN <<codes[code].data>>
    ELSE <<>>

get_auth_code(codes, code) ==
    IF code \in DOMAIN codes /\ codes[code].expires > now
    THEN <<codes[code].data>>
    ELSE <<>>

(* Mutant: a key that is not in the store empties the store *)
delete_auth_code_clearing(codes, code) ==
    IF code \in DOMAIN codes THEN DictPop(codes, code) ELSE EmptyDict

(* Mutant: the code is left in the store *)
delete_auth_code_keeping(codes, code) == codes

delete_auth_code(codes, code) == DictPop(codes, code)

-----------------------------------------------------------------------------
(* The store functions statement by statement, for callers that run         *)
(* concurrently. A set builds the entry (reading the clock) and then        *)
(* assigns it to the key; a get fetches the entry of the key and then       *)
(* compares its expiry with the clock; a delete pops the key. Each access   *)
(* to the dict is one step.                                                 *)

(* {'data': data, 'expires': time.time() + ttl} *)
Entry(data, ttl) == [data |-> data, expires |-> now + ttl]

(* Mutant: an entry that exists is updated in place, its data first *)
SetItem_in_place(store, key, entry) ==
    IF key \in DOMAIN store
    THEN [store EXCEPT ![key].data = entry.data]
    ELSE DictSet(store, key, entry)

(* auth_sessions[session_id] = ..., auth_codes[code] = ... *)
SetItem(store, key, entry) == DictSet(store, key, entry)

(* auth_sessions.get(session_id), auth_codes.get(code) *)
dict_get(store, key) == IF key \in DOMAIN store THEN <<store[key]>> ELSE <<>>

(* if session and session['expires'] > time.time(): return session['data'] *)
(* return None                                                              *)
Unexpired(fetched) ==
    IF fetched # <<>> /\ fetched[1].expires > now THEN <<fetched[1].data>> ELSE <<>>

CodeOps == {"set_auth_code", "get_auth_code", "delete_auth_code"}

SessionData == [provider |-> "google", redirect_uri |-> "app://cb", state |-> None]

(* The concurrent callers: all of them on one key of their store *)
StoreCalls ==
    <<[op |-> "set_auth_code", key |-> "k", data |-> <<"d1">>],
      [op |-> "set_auth_code", key |-> "k", data |-> <<"d2">>],
      [op |-> "get_auth_code", key |-> "k", data |-> <<>>],
      [op |-> "delete_auth_code", key |-> "k", data |-> <<>>],
      [op |-> "set_auth_session", key |-> "k", data |-> <<SessionData>>],
      [op |-> "get_auth_session", key |-> "k", data |-> <<>>]>>

(* A caller: where it is, the entry it has built, the entry it has         *)
(* fetched, what it has returned and when.                                 *)
NotStarted == [pc |-> "start", entry |-> <<>>, fetched |-> <<>>, returned |-> <<>>,
               at |-> 0]

-----------------------------------------------------------------------------
(* Results of a handler *)

HTTPException(status_code, detail) ==
    [raised |-> TRUE, status |-> status_code, detail |-> detail]

UnhandledError == HTTPException(500, "Internal Server Error")

NoEffects == [posts |-> <<>>, signin |-> <<>>, minted |-> <<>>, issued |-> <<>>,
              session |-> <<>>, created |-> <<>>, seen |-> <<>>]

(* The result of one handled request: the status, detail and body of the    *)
(* response, what the handler did on the way (posts to the provider token   *)
(* endpoint, sign-in posts, uids a custom token was minted for, one-time    *)
(* code stored, session resolved, session created, the code store as the    *)
(* custom token generation found it when it was called) and the two stores  *)
(* as the handler leaves them.                                              *)
Result(status, detail, body, eff, sessions, codes) ==
    [status |-> status, detail |-> detail, body |-> body,
     posts |-> eff.posts, signin |-> eff.signin, minted |-> eff.minted,
     issued |-> eff.issued, session |-> eff.session, created |-> eff.created,
     seen |-> eff.seen,
     auth_sessions |-> sessions, auth_codes |-> codes]

Failure(exc, eff, sessions, codes) ==
    Result(exc.status, exc.detail, EmptyDict, eff, sessions, codes)

-----------------------------------------------------------------------------
(* Authorize URLs *)

(* The characters that are not unreserved, with their percent-escapes *)
Hex == [c \in {":", "/", "?", "&", "=", " ", "#", "%"} |->
            CASE c = ":" -> "3A" [] c = "/" -> "2F" [] c = "?" -> "3F"
              [] c = "&" -> "26" [] c = "=" -> "3D" [] c = " " -> "20"
              [] c = "#" -> "23" [] c = "%" -> "25"]

Special == DOMAIN Hex

Escapes == {"%" \o Hex[c] : c \in Special}

Unescaped(a) == CHOOSE c \in Special : a = "%" \o Hex[c]

(* urllib.parse.quote(string, safe): every character that is neither        *)
(* unreserved nor in safe becomes its percent-escape.                       *)
quote(string, safe) ==
    [i \in 1..Len(string) |->
        LET a == string[i]
        IN  IF a \in Special
            THEN IF a \in safe THEN a ELSE "%" \o Hex[a]
            ELSE IF a \in Escapes /\ "%" \notin safe
            THEN "%25" \o Hex[Unescaped(a)]
            ELSE a]

(* starlette's RedirectResponse: the Location header is the url quoted with *)
(* the URL delimiters safe, the status is 307.                              *)
RedirectResponse(url) ==
    [raised |-> FALSE, status |-> REDIRECT_STATUS,
     url |-> quote(url, {":", "/", "%", "#", "?", "=", "@", "[", "]", "!", "$", "&",
                         "'", "(", ")", "*", "+", ",", ";"})]

(* Mutant: the client id is not looked at *)
_apple_auth_redirect_unchecked(e, session_id) ==
    RedirectResponse(
        <<"https", ":", "/", "/", "appleid.apple.com", "/", "auth", "/", "authorize", "?">>
        \o <<"client_id", "=", getenv(e, "APPLE_CLIENT_ID"), "&">>
        \o <<"redirect_uri", "=">> \o api_base_url
        \o <<"/", "v1", "/", "auth", "/", "callback", "/", "apple", "&">>
        \o <<"response_type", "=", "code", "&">>
        \o <<"scope", "=", "name", " ", "email", "&">>
        \o <<"response_mode", "=", "form_post", "&">>
        \o <<"state", "=", session_id>>)

_apple_auth_redirect(e, session_id) ==
    LET client_id == getenv(e, "APPLE_CLIENT_ID")
        callback_url == api_base_url \o <<"/", "v1", "/", "auth", "/", "callback", "/", "apple">>
    IN  IF ~Truthy(client_id)
        THEN HTTPException(500, "APPLE_CLIENT_ID not configured")
        ELSE RedirectResponse(
                 <<"https", ":", "/", "/", "appleid.apple.com", "/", "auth", "/",
                   "authorize", "?">>
                 \o <<"client_id", "=", client_id, "&">>
                 \o <<"redirect_uri", "=">> \o callback_url \o <<"&">>
                 \o <<"response_type", "=", "code", "&">>
                 \o <<"scope", "=", "name", " ", "email", "&">>
                 \o <<"response_mode", "=", "form_post", "&">>
                 \o <<"state", "=", session_id>>)

_google_auth_redirect(e, session_id) ==
    LET client_id == getenv(e, "GOOGLE_CLIENT_ID")
        callback_url == api_base_url \o <<"/", "v1", "/", "auth", "/", "callback", "/", "google">>
    IN  IF ~Truthy(client_id)
        THEN HTTPException(500, "GOOGLE_CLIENT_ID not configured")
        ELSE RedirectResponse(
                 <<"https", ":", "/", "/", "accounts.google.com", "/", "o", "/",
                   "oauth2", "/", "v2", "/", "auth", "?">>
                 \o <<"client_id", "=">> \o quote(<<client_id>>, {"/"}) \o <<"&">>
                 \o <<"redirect_uri", "=">> \o quote(callback_url, {"/"}) \o <<"&">>
                 \o <<"response_type", "=", "code", "&">>
                 \o <<"scope", "=">> \o quote(<<"openid", " ", "email", " ", "profile">>, {"/"})
                 \o <<"&">>
                 \o <<"state", "=">> \o quote(<<session_id>>, {"/"}))

-----------------------------------------------------------------------------
(* The provider token endpoints (outside the program) *)

ProviderCodes == {"pc1", "pc2"}

ConnectionError == [kind |-> "error"]

HttpReply(status, json) == [kind |-> "http", status |-> status, json |-> json]

(* The tokens a provider holds for an authorization code it has issued: an  *)
(* identity token, and for the first code an access token too.              *)
ProviderTokens(provider, code) ==
    LET id_token == "idt-" \o provider \o "-" \o code
        access_token == "at-" \o provider \o "-" \o code
    IN  IF code = "pc1"
        THEN [id_token |-> id_token, access_token |-> access_token]
        ELSE [id_token |-> id_token]

(* What a provider token endpoint may answer to an authorization code. A    *)
(* provider accepts an authorization code at most once.                      *)
TokenReplies(provider, code) ==
    LET rejected == {HttpReply(400, [error |-> "invalid_grant"]), ConnectionError}
    IN  IF <<provider, code>> \in provider_used \/ code \notin ProviderCodes
        THEN rejected
        ELSE rejected \cup
             {HttpReply(200, ProviderTokens(provider, code)),
              HttpReply(200, [token_type |-> "Bearer"])}

(* The provider has accepted the code when it answers with the tokens.      *)
Accepted(reply) ==
    reply.kind = "http" /\ reply.status = 200 /\ "id_token" \in DOMAIN reply.json

-----------------------------------------------------------------------------
(* Code exchange *)

(* Mutant: one configured value is enough *)
any(xs) == \E i \in 1..Len(xs) : Truthy(xs[i])

all(xs) == \A i \in 1..Len(xs) : Truthy(xs[i])

(* Mutant: the issuer and the subject are exchanged *)
_generate_apple_client_secret_swapped(client_id, team_id, key_id, private_key_content) ==
    [headers |-> [kid |-> key_id, alg |-> "ES256"],
     payload |-> [iss |-> client_id, iat |-> now, exp |-> now + CLIENT_SECRET_LIFETIME,
                  aud |-> "https://appleid.apple.com", sub |-> team_id],
     key |-> private_key_content]

(* Mutant: the secret generated at start-up is used for every exchange *)
_generate_apple_client_secret_cached(client_id, team_id, key_id, private_key_content) ==
    [headers |-> [kid |-> key_id, alg |-> "ES256"],
     payload |-> [iss |-> team_id, iat |-> 0, exp |-> CLIENT_SECRET_LIFETIME,
                  aud |-> "https://appleid.apple.com", sub |-> client_id],
     key |-> private_key_content]

_generate_apple_client_secret(client_id, team_id, key_id, private_key_content) ==
    [headers |-> [kid |-> key_id, alg |-> "ES256"],
     payload |-> [iss |-> team_id, iat |-> now, exp |-> now + CLIENT_SECRET_LIFETIME,
                  aud |-> "https://appleid.apple.com", sub |-> client_id],
     key |-> private_key_content]

CredentialKeys == <<"provider", "id_token", "access_token", "provider_id">>

(* The result of an exchange: the exception raised or the value returned,   *)
(* and the posts made to the provider token endpoint.                       *)
Raise(exc, posts) == [raised |-> TRUE, exc |-> exc, posts |-> posts]

Return(value, posts) == [raised |-> FALSE, value |-> value, posts |-> posts]

(* Mutant: a rejected post is made a second time *)
_exchange_apple_code_retrying(e, code, session_data, token_response) ==
    LET client_id == getenv(e, "APPLE_CLIENT_ID")
        callback_url == api_base_url
                        \o <<"/", "v1", "/", "auth", "/", "callback", "/", "apple">>
        post == [url |-> "https://appleid.apple.com/auth/token",
                 data |-> [client_id |-> client_id,
                           client_secret |-> _generate_apple_client_secret(client_id,
                               getenv(e, "APPLE_TEAM_ID"), getenv(e, "APPLE_KEY_ID"),
                               getenv(e, "APPLE_PRIVATE_KEY")),
                           code |-> code, grant_type |-> "authorization_code",
                           redirect_uri |-> callback_url]]
    IN  IF token_response.kind = "error"
        THEN Raise(UnhandledError, <<post>>)
        ELSE IF token_response.status # 200
        THEN Raise(HTTPException(400, "Failed to exchange Apple code"), <<post, post>>)
        ELSE
        LET token_json == token_response.json
            id_token == DictGet(token_json, "id_token")
        IN  IF ~Truthy(id_token)
            THEN Raise(HTTPException(400, "No ID token from Apple"), <<post>>)
            ELSE Return(json_dumps(CredentialKeys,
                            [provider |-> "apple", id_token |-> id_token,
                             access_token |-> DictGet(token_json, "access_token"),
                             provider_id |-> "apple.com"]), <<post>>)

(* Mutant: the status and the identity token of the answer are not checked *)
_exchange_apple_code_unchecked(e, code, session_data, token_response) ==
    LET client_id == getenv(e, "APPLE_CLIENT_ID")
        callback_url == api_base_url
                        \o <<"/", "v1", "/", "auth", "/", "callback", "/", "apple">>
        post == [url |-> "https://appleid.apple.com/auth/token",
                 data |-> [client_id |-> client_id,
                           client_secret |-> _generate_apple_client_secret(client_id,
                               getenv(e, "APPLE_TEAM_ID"), getenv(e, "APPLE_KEY_ID"),
                               getenv(e, "APPLE_PRIVATE_KEY")),
                           code |-> code, grant_type |-> "authorization_code",
                           redirect_uri |-> callback_url]]
        token_json == IF token_response.kind = "error" THEN EmptyDict
                      ELSE token_response.json
    IN  Return(json_dumps(CredentialKeys,
                   [provider |-> "apple", id_token |-> DictGet(token_json, "id_token"),
                    access_token |-> DictGet(token_json, "access_token"),
                    provider_id |-> "apple.com"]), <<post>>)

_exchange_apple_code(e, code, session_data, token_response) ==
    LET client_id == getenv(e, "APPLE_CLIENT_ID")
        team_id == getenv(e, "APPLE_TEAM_ID")
        key_id == getenv(e, "APPLE_KEY_ID")
        private_key_content == getenv(e, "APPLE_PRIVATE_KEY")
    IN  IF ~all(<<client_id, team_id, key_id, private_key_content>>)
        THEN Raise(HTTPException(500, "Apple auth not configured"), <<>>)
        ELSE
        LET client_secret == _generate_apple_client_secret(client_id, team_id, key_id,
                                                           private_key_content)
            callback_url == api_base_url
                            \o <<"/", "v1", "/", "auth", "/", "callback", "/", "apple">>
            post == [url |-> "https://appleid.apple.com/auth/token",
                     data |-> [client_id |-> client_id, client_secret |-> client_secret,
                               code |-> code, grant_type |-> "authorization_code",
                               redirect_uri |-> callback_url]]
        IN  IF token_response.kind = "error"
            THEN Raise(UnhandledError, <<post>>)
            ELSE IF token_response.status # 200
            THEN Raise(HTTPException(400, "Failed to exchange Apple code"), <<post>>)
            ELSE
            LET token_json == token_response.json
                id_token == DictGet(token_json, "id_token")
                access_token == DictGet(token_json, "access_token")
            IN  IF ~Truthy(id_token)
                THEN Raise(HTTPException(400, "No ID token from Apple"), <<post>>)
                ELSE Return(json_dumps(CredentialKeys,
                                [provider |-> "apple", id_token |-> id_token,
                                 access_token |-> access_token,
                                 provider_id |-> "apple.com"]), <<post>>)

(* Mutant: the status and the identity token of the answer are not checked *)
_exchange_google_code_unchecked(e, code, session_data, token_response) ==
    LET callback_url == api_base_url \o <<"/", "v1", "/", "auth", "/", "callback", "/", "google">>
        post == [url |-> "https://oauth2.googleapis.com/token",
                 data |-> [code |-> code, client_id |-> getenv(e, "GOOGLE_CLIENT_ID"),
                           client_secret |-> getenv(e, "GOOGLE_CLIENT_SECRET"),
                           redirect_uri |-> callback_url,
                           grant_type |-> "authorization_code"]]
        token_json == IF token_response.kind = "error" THEN EmptyDict
                      ELSE token_response.json
    IN  Return(json_dumps(CredentialKeys,
                   [provider |-> "google", id_token |-> DictGet(token_json, "id_token"),
                    access_token |-> DictGet(token_json, "access_token"),
                    provider_id |-> "google.com"]), <<post>>)

(* Mutant: the callback URL is posted percent-encoded *)
_exchange_google_code_quoting(e, code, session_data, token_response) ==
    LET callback_url == api_base_url
                        \o <<"/", "v1", "/", "auth", "/", "callback", "/", "google">>
        post == [url |-> "https://oauth2.googleapis.com/token",
                 data |-> [code |-> code, client_id |-> getenv(e, "GOOGLE_CLIENT_ID"),
                           client_secret |-> getenv(e, "GOOGLE_CLIENT_SECRET"),
                           redirect_uri |-> quote(callback_url, {"/"}),
                           grant_type |-> "authorization_code"]]
    IN  IF token_response.kind = "error"
        THEN Raise(UnhandledError, <<post>>)
        ELSE IF token_response.status # 200
        THEN Raise(HTTPException(400, "Failed to exchange Google code"), <<post>>)
        ELSE
        LET token_json == token_response.json
            id_token == DictGet(token_json, "id_token")
            access_token == DictGet(token_json, "access_token")
        IN  IF ~Truthy(id_token)
            THEN Raise(HTTPException(400, "No ID token from Google"), <<post>>)
            ELSE Return(json_dumps(CredentialKeys,
                            [provider |-> "google", id_token |-> id_token,
                             access_token |-> access_token,
                             provider_id |-> "google.com"]), <<post>>)

_exchange_google_code(e, code, session_data, token_response) ==
    LET client_id == getenv(e, "GOOGLE_CLIENT_ID")
        client_secret == getenv(e, "GOOGLE_CLIENT_SECRET")
    IN  IF ~all(<<client_id, client_secret>>)
        THEN Raise(HTTPException(500, "Google auth not configured"), <<>>)
        ELSE
        LET callback_url == api_base_url
                            \o <<"/", "v1", "/", "auth", "/", "callback", "/", "google">>
            post == [url |-> "https://oauth2.googleapis.com/token",
                     data |-> [code |-> code, client_id |-> client_id,
                               client_secret |-> client_secret,
                               redirect_uri |-> callback_url,
                               grant_type |-> "authorization_code"]]
        IN  IF token_response.kind = "error"
            THEN Raise(UnhandledError, <<post>>)
            ELSE IF token_response.status # 200
            THEN Raise(HTTPException(400, "Failed to exchange Google code"), <<post>>)
            ELSE
            LET token_json == token_response.json
                id_token == DictGet(token_json, "id_token")
                access_token == DictGet(token_json, "access_token")
            IN  IF ~Truthy(id_token)
                THEN Raise(HTTPException(400, "No ID token from Google"), <<post>>)
                ELSE Return(json_dumps(CredentialKeys,
                                [provider |-> "google", id_token |-> id_token,
                                 access_token |-> access_token,
                                 provider_id |-> "google.com"]), <<post>>)

-----------------------------------------------------------------------------
(* Federation: the federated sign-in endpoint and the token minting (outside *)
(* the program)                                                              *)

SignInReplies ==
    {HttpReply(200, [localId |-> "uid-1", idToken |-> "fb"]),
     HttpReply(200, [idToken |-> "fb"]),
     HttpReply(400, [error |-> "INVALID_IDP_RESPONSE"]),
     ConnectionError}

(* firebase_auth.create_custom_token: the token for the uid, or an error    *)
MintReplies == {"minted", "error"}

create_custom_token(uid) == "custom-" \o uid

(* Mutant: the local account id of the answer is not looked at *)
_generate_custom_token_any_uid(e, provider, id_token, access_token, response, mint) ==
    LET firebase_api_key == getenv(e, "FIREBASE_API_KEY")
        none == [signin |-> <<>>, minted |-> <<>>]
    IN  IF ~Truthy(firebase_api_key)
        THEN [raised |-> TRUE, exc |-> "FIREBASE_API_KEY not configured"] @@ none
        ELSE IF provider \notin {"google", "apple"}
        THEN [raised |-> TRUE, exc |-> "Unsupported provider"] @@ none
        ELSE
        LET post == [url |-> "https://identitytoolkit.googleapis.com/v1/accounts:signInWithIdp?key="
                             \o firebase_api_key,
                     json |-> [postBody |-> "id_token=" \o id_token,
                               requestUri |-> "http://localhost",
                               returnIdpCredential |-> TRUE, returnSecureToken |-> TRUE]]
            sent == [signin |-> <<post>>, minted |-> <<>>]
        IN  IF response.kind = "error"
            THEN [raised |-> TRUE, exc |-> "ConnectionError"] @@ sent
            ELSE
            LET firebase_uid == DictGet(response.json, "localId")
            IN  IF mint = "error"
                THEN [raised |-> TRUE, exc |-> "create_custom_token failed"] @@ sent
                ELSE [raised |-> FALSE, value |-> create_custom_token(firebase_uid),
                      signin |-> <<post>>, minted |-> <<firebase_uid>>]

_generate_custom_token(e, provider, id_token, access_token, response, mint) ==
    LET firebase_api_key == getenv(e, "FIREBASE_API_KEY")
        none == [signin |-> <<>>, minted |-> <<>>]
    IN  IF ~Truthy(firebase_api_key)
        THEN [raised |-> TRUE, exc |-> "FIREBASE_API_KEY not configured"] @@ none
        ELSE IF provider \notin {"google", "apple"}
        THEN [raised |-> TRUE, exc |-> "Unsupported provider"] @@ none
        ELSE
        LET sign_in_url == "https://identitytoolkit.googleapis.com/v1/accounts:signInWithIdp?key="
                           \o firebase_api_key
            provider_id == IF provider = "google" THEN "google.com" ELSE "apple.com"
            post_body == "id_token=" \o id_token \o "&providerId=" \o provider_id
                         \o (IF Truthy(access_token)
                             THEN "&access_token=" \o access_token ELSE "")
            post == [url |-> sign_in_url,
                     json |-> [postBody |-> post_body, requestUri |-> "http://localhost",
                               returnIdpCredential |-> TRUE, returnSecureToken |-> TRUE]]
            sent == [signin |-> <<post>>, minted |-> <<>>]
        IN  IF response.kind = "error"
            THEN [raised |-> TRUE, exc |-> "ConnectionError"] @@ sent
            ELSE IF response.status # 200
            THEN [raised |-> TRUE, exc |-> "Firebase sign-in failed"] @@ sent
            ELSE
            LET firebase_uid == DictGet(response.json, "localId")
            IN  IF ~Truthy(firebase_uid)
                THEN [raised |-> TRUE, exc |-> "No Firebase UID returned"] @@ sent
                ELSE IF mint = "error"
                THEN [raised |-> TRUE, exc |-> "create_custom_token failed"] @@ sent
                ELSE [raised |-> FALSE, value |-> create_custom_token(firebase_uid),
                      signin |-> <<post>>, minted |-> <<firebase_uid>>]

-----------------------------------------------------------------------------
(* Requests *)

Providers == {"google", "apple"}

ProviderInputs == Providers \cup {"github"}

RedirectUriInputs == {"app://cb"}

TokenRedirectUriInputs == {"app://cb", "evil://cb"}

ClientStateInputs == {None, "xyz"}

ErrorInputs == {None, "", "access_denied"}

(* The requests that are handled in a behaviour carry one of each kind of    *)
(* error parameter (an empty one is handled as an absent one).              *)
ErrorsSent == {None, "access_denied"}

GrantTypeInputs == {"authorization_code", "refresh_token"}

(* A client can present any identifier the service has handed out, or one   *)
(* it never handed out.                                                     *)
IdInputs == Issued \cup {"bogus"}

-----------------------------------------------------------------------------
(* GET /v1/auth/authorize *)

(* Mutant: the session is stored before the provider is looked at *)
auth_authorize_storing_first(provider, redirect_uri, state) ==
    LET session_id == uuid4(uuids)
        session_data == [provider |-> provider, redirect_uri |-> redirect_uri,
                         state |-> state]
        sessions == set_auth_session(auth_sessions, session_id, session_data, SESSION_TTL)
        redirect == IF provider = "apple"
                    THEN _apple_auth_redirect(env, session_id)
                    ELSE _google_auth_redirect(env, session_id)
        eff == [NoEffects EXCEPT !.created = <<session_id>>]
    IN  IF provider \notin {"google", "apple"}
        THEN Failure(HTTPException(400, "Unsupported provider"), eff, sessions, auth_codes)
        ELSE IF redirect.raised
        THEN Failure(redirect, eff, sessions, auth_codes)
        ELSE Result(redirect.status, "", [location |-> redirect.url], eff,
                    sessions, auth_codes)

auth_authorize(provider, redirect_uri, state) ==
    IF provider \notin {"google", "apple"}
    THEN Failure(HTTPException(400, "Unsupported provider"), NoEffects,
                 auth_sessions, auth_codes)
    ELSE
    LET session_id == uuid4(uuids)
        session_data == [provider |-> provider, redirect_uri |-> redirect_uri,
                         state |-> state]
        sessions == set_auth_session(auth_sessions, session_id, session_data, SESSION_TTL)
        redirect == IF provider = "apple"
                    THEN _apple_auth_redirect(env, session_id)
                    ELSE _google_auth_redirect(env, session_id)
        eff == [NoEffects EXCEPT !.created = <<session_id>>]
    IN  IF redirect.raised
        THEN Failure(redirect, eff, sessions, auth_codes)
        ELSE Result(redirect.status, "", [location |-> redirect.url], eff,
                    sessions, auth_codes)

-----------------------------------------------------------------------------
(* The provider callbacks *)

(* Mutant: the page always redirects to the app's default URL *)
TemplateContext_hardcoded(auth_code, session_data) ==
    [code |-> auth_code,
     state |-> IF Truthy(DictGet(session_data, "state"))
               THEN session_data.state ELSE "",
     redirect_uri |-> "omi-computer://auth/callback"]

(* templates.TemplateResponse("auth_callback.html", ...): the context       *)
TemplateContext(auth_code, session_data) ==
    [code |-> auth_code,
     state |-> IF Truthy(DictGet(session_data, "state"))
               THEN session_data.state ELSE "",
     redirect_uri |-> IF "redirect_uri" \in DOMAIN session_data
                      THEN session_data.redirect_uri
                      ELSE "omi-computer://auth/callback"]

(* Mutant: a lookup that resolves the session starts its TTL again *)
CallbackFinish_refreshing(state, session_data, exchanged) ==
    LET found == [NoEffects EXCEPT !.session = <<state>>, !.posts = exchanged.posts]
        sessions == set_auth_session(auth_sessions, state, session_data, SESSION_TTL)
    IN  IF exchanged.raised
        THEN Failure(exchanged.exc, found, sessions, auth_codes)
        ELSE
        LET auth_code == uuid4(uuids)
        IN  Result(200, "", TemplateContext(auth_code, session_data),
                   [found EXCEPT !.issued = <<auth_code>>],
                   sessions,
                   set_auth_code(auth_codes, auth_code, exchanged.value, CODE_TTL))

(* Mutant: a code is stored whether the exchange has raised or not *)
CallbackFinish_storing_anyway(state, session_data, exchanged) ==
    LET auth_code == uuid4(uuids)
        found == [NoEffects EXCEPT !.session = <<state>>, !.posts = exchanged.posts,
                                   !.issued = <<auth_code>>]
    IN  IF exchanged.raised
        THEN Failure(exchanged.exc, found, auth_sessions,
                     set_auth_code(auth_codes, auth_code,
                         json_dumps(CredentialKeys,
                             [provider |-> None, id_token |-> None,
                              access_token |-> None, provider_id |-> None]), CODE_TTL))
        ELSE Result(200, "", TemplateContext(auth_code, session_data), found,
                    auth_sessions,
                    set_auth_code(auth_codes, auth_code, exchanged.value, CODE_TTL))

(* Mutant: the session is removed once it has been resolved *)
CallbackFinish_consuming(state, session_data, exchanged) ==
    LET found == [NoEffects EXCEPT !.session = <<state>>, !.posts = exchanged.posts]
        sessions == DictPop(auth_sessions, state)
    IN  IF exchanged.raised
        THEN Failure(exchanged.exc, found, sessions, auth_codes)
        ELSE
        LET auth_code == uuid4(uuids)
        IN  Result(200, "", TemplateContext(auth_code, session_data),
                   [found EXCEPT !.issued = <<auth_code>>],
                   sessions,
                   set_auth_code(auth_codes, auth_code, exchanged.value, CODE_TTL))

(* What a callback handler does with the outcome of its exchange: raise, or *)
(* store a fresh one-time code and render the page.                         *)
CallbackFinish(state, session_data, exchanged) ==
    LET found == [NoEffects EXCEPT !.session = <<state>>, !.posts = exchanged.posts]
    IN  IF exchanged.raised
        THEN Failure(exchanged.exc, found, auth_sessions, auth_codes)
        ELSE
        LET auth_code == uuid4(uuids)
        IN  Result(200, "", TemplateContext(auth_code, session_data),
                   [found EXCEPT !.issued = <<auth_code>>],
                   auth_sessions,
                   set_auth_code(auth_codes, auth_code, exchanged.value, CODE_TTL))

(* POST /v1/auth/callback/apple: code and state are required form fields    *)
auth_callback_apple_post(code, state, error, token_response) ==
    IF Truthy(error)
    THEN Failure(HTTPException(400, "Auth error: " \o error), NoEffects,
                 auth_sessions, auth_codes)
    ELSE
    LET session_data == get_auth_session(auth_sessions, state)
    IN  IF session_data = <<>>
        THEN Failure(HTTPException(400, "Invalid auth session"), NoEffects,
                     auth_sessions, auth_codes)
        ELSE CallbackFinish(state, session_data[1],
                 _exchange_apple_code(env, code, session_data[1], token_response))

(* Mutant: the provider's error parameter is not looked at *)
auth_callback_google_ignoring_error(code, state, error, token_response) ==
    IF ~Truthy(code) \/ ~Truthy(state)
    THEN Failure(HTTPException(400, "Missing code or state"), NoEffects,
                 auth_sessions, auth_codes)
    ELSE
    LET session_data == get_auth_session(auth_sessions, state)
    IN  IF session_data = <<>>
        THEN Failure(HTTPException(400, "Invalid auth session"), NoEffects,
                     auth_sessions, auth_codes)
        ELSE CallbackFinish(state, session_data[1],
                 _exchange_google_code(env, code, session_data[1], token_response))

(* GET /v1/auth/callback/google: code, state and error are optional         *)
auth_callback_google(code, state, error, token_response) ==
    IF Truthy(error)
    THEN Failure(HTTPException(400, "Auth error: " \o error), NoEffects,
                 auth_sessions, auth_codes)
    ELSE IF ~Truthy(code) \/ ~Truthy(state)
    THEN Failure(HTTPException(400, "Missing code or state"), NoEffects,
                 auth_sessions, auth_codes)
    ELSE
    LET session_data == get_auth_session(auth_sessions, state)
    IN  IF session_data = <<>>
        THEN Failure(HTTPException(400, "Invalid auth session"), NoEffects,
                     auth_sessions, auth_codes)
        ELSE CallbackFinish(state, session_data[1],
                 _exchange_google_code(env, code, session_data[1], token_response))

-----------------------------------------------------------------------------
(* POST /v1/auth/token *)

NotAsked == [raised |-> TRUE, exc |-> "not asked for", signin |-> <<>>, minted |-> <<>>]

(* Mutant: an error of the custom token generation reaches the outer except *)
TokenResponse_propagating(oauth_credentials, use_custom_token, custom) ==
    LET response == [provider |-> DictGet(oauth_credentials, "provider"),
                     id_token |-> DictGet(oauth_credentials, "id_token"),
                     access_token |-> DictGet(oauth_credentials, "access_token"),
                     provider_id |-> DictGet(oauth_credentials, "provider_id"),
                     token_type |-> "Bearer",
                     expires_in |-> EXPIRES_IN]
    IN  IF use_custom_token /\ custom.raised
        THEN HTTPException(400, "Invalid OAuth credentials")
        ELSE IF use_custom_token
        THEN [raised |-> FALSE, status |-> 200,
              body |-> response @@ [custom_token |-> custom.value]]
        ELSE [raised |-> FALSE, status |-> 200, body |-> response]

(* The try block of auth_token: the response built from the stored          *)
(* credentials, with the custom token when one was asked for and its        *)
(* generation did not raise.                                                *)
TokenResponse(oauth_credentials, use_custom_token, custom) ==
    LET response == [provider |-> DictGet(oauth_credentials, "provider"),
                     id_token |-> DictGet(oauth_credentials, "id_token"),
                     access_token |-> DictGet(oauth_credentials, "access_token"),
                     provider_id |-> DictGet(oauth_credentials, "provider_id"),
                     token_type |-> "Bearer",
                     expires_in |-> EXPIRES_IN]
    IN  IF use_custom_token /\ ~custom.raised
        THEN [raised |-> FALSE, status |-> 200,
              body |-> response @@ [custom_token |-> custom.value]]
        ELSE [raised |-> FALSE, status |-> 200, body |-> response]

(* Mutant: the code is removed after the custom token generation *)
auth_token_deleting_last(grant_type, code, redirect_uri, use_custom_token, signin_response, mint) ==
    IF grant_type # "authorization_code"
    THEN Failure(HTTPException(400, "Unsupported grant type"), NoEffects,
                 auth_sessions, auth_codes)
    ELSE
    LET oauth_credentials_json == get_auth_code(auth_codes, code)
    IN  IF oauth_credentials_json = <<>>
        THEN Failure(HTTPException(400, "Invalid or expired code"), NoEffects,
                     auth_sessions, auth_codes)
        ELSE
        LET oauth_credentials == json_loads(oauth_credentials_json[1])
            custom == IF use_custom_token
                      THEN _generate_custom_token(env,
                               DictGet(oauth_credentials, "provider"),
                               DictGet(oauth_credentials, "id_token"),
                               DictGet(oauth_credentials, "access_token"),
                               signin_response, mint)
                      ELSE NotAsked
            answer == TokenResponse(oauth_credentials, use_custom_token, custom)
            eff == [NoEffects EXCEPT !.signin = custom.signin, !.minted = custom.minted,
                                     !.seen = IF use_custom_token THEN <<auth_codes>>
                                              ELSE <<>>]
            codes == delete_auth_code(auth_codes, code)
        IN  Result(answer.status, "", answer.body, eff, auth_sessions, codes)

(* Mutant: the redirect_uri of the request has to be the one of the app *)
auth_token_binding_redirect_uri(grant_type, code, redirect_uri, use_custom_token, signin_response, mint) ==
    IF grant_type # "authorization_code"
    THEN Failure(HTTPException(400, "Unsupported grant type"), NoEffects,
                 auth_sessions, auth_codes)
    ELSE
    LET oauth_credentials_json == get_auth_code(auth_codes, code)
    IN  IF oauth_credentials_json = <<>> \/ redirect_uri # "app://cb"
        THEN Failure(HTTPException(400, "Invalid or expired code"), NoEffects,
                     auth_sessions, auth_codes)
        ELSE
        LET codes == delete_auth_code(auth_codes, code)
            oauth_credentials == json_loads(oauth_credentials_json[1])
            custom == IF use_custom_token
                      THEN _generate_custom_token(env,
                               DictGet(oauth_credentials, "provider"),
                               DictGet(oauth_credentials, "id_token"),
                               DictGet(oauth_credentials, "access_token"),
                               signin_response, mint)
                      ELSE NotAsked
            answer == TokenResponse(oauth_credentials, use_custom_token, custom)
            eff == [NoEffects EXCEPT !.signin = custom.signin, !.minted = custom.minted]
        IN  Result(answer.status, "", answer.body, eff, auth_sessions, codes)

(* Mutant: the code is removed before the grant type is looked at *)
auth_token_consuming_first(grant_type, code, redirect_uri, use_custom_token, signin_response, mint) ==
    LET oauth_credentials_json == get_auth_code(auth_codes, code)
        codes == delete_auth_code(auth_codes, code)
    IN  IF grant_type # "authorization_code"
        THEN Failure(HTTPException(400, "Unsupported grant type"), NoEffects,
                     auth_sessions, codes)
        ELSE IF oauth_credentials_json = <<>>
        THEN Failure(HTTPException(400, "Invalid or expired code"), NoEffects,
                     auth_sessions, auth_codes)
        ELSE
        LET oauth_credentials == json_loads(oauth_credentials_json[1])
            custom == IF use_custom_token
                      THEN _generate_custom_token(env,
                               DictGet(oauth_credentials, "provider"),
                               DictGet(oauth_credentials, "id_token"),
                               DictGet(oauth_credentials, "access_token"),
                               signin_response, mint)
                      ELSE NotAsked
            answer == TokenResponse(oauth_credentials, use_custom_token, custom)
            eff == [NoEffects EXCEPT !.signin = custom.signin, !.minted = custom.minted]
        IN  Result(answer.status, "", answer.body, eff, auth_sessions, codes)

(* Mutant: the custom token is generated whether it was asked for or not *)
auth_token_always_federating(grant_type, code, redirect_uri, use_custom_token, signin_response, mint) ==
    IF grant_type # "authorization_code"
    THEN Failure(HTTPException(400, "Unsupported grant type"), NoEffects,
                 auth_sessions, auth_codes)
    ELSE
    LET oauth_credentials_json == get_auth_code(auth_codes, code)
    IN  IF oauth_credentials_json = <<>>
        THEN Failure(HTTPException(400, "Invalid or expired code"), NoEffects,
                     auth_sessions, auth_codes)
        ELSE
        LET codes == delete_auth_code(auth_codes, code)
            oauth_credentials == json_loads(oauth_credentials_json[1])
            custom == _generate_custom_token(env,
                          DictGet(oauth_credentials, "provider"),
                          DictGet(oauth_credentials, "id_token"),
                          DictGet(oauth_credentials, "access_token"),
                          signin_response, mint)
            answer == TokenResponse(oauth_credentials, use_custom_token, custom)
            eff == [NoEffects EXCEPT !.signin = custom.signin, !.minted = custom.minted]
        IN  Result(answer.status, "", answer.body, eff, auth_sessions, codes)

auth_token(grant_type, code, redirect_uri, use_custom_token, signin_response, mint) ==
    IF grant_type # "authorization_code"
    THEN Failure(HTTPException(400, "Unsupported grant type"), NoEffects,
                 auth_sessions, auth_codes)
    ELSE
    LET oauth_credentials_json == get_auth_code(auth_codes, code)
    IN  IF oauth_credentials_json = <<>>
        THEN Failure(HTTPException(400, "Invalid or expired code"), NoEffects,
                     auth_sessions, auth_codes)
        ELSE
        LET codes == delete_auth_code(auth_codes, code)
            oauth_credentials == json_loads(oauth_credentials_json[1])
            custom == IF use_custom_token
                      THEN _generate_custom_token(env,
                               DictGet(oauth_credentials, "provider"),
                               DictGet(oauth_credentials, "id_token"),
                               DictGet(oauth_credentials, "access_token"),
                               signin_response, mint)
                      ELSE NotAsked
            answer == TokenResponse(oauth_credentials, use_custom_token, custom)
            eff == [NoEffects EXCEPT !.signin = custom.signin, !.minted = custom.minted,
                                     !.seen = IF use_custom_token THEN <<codes>> ELSE <<>>]
        IN  IF answer.raised
            THEN Failure(answer, eff, auth_sessions, codes)
            ELSE Result(answer.status, "", answer.body, eff, auth_sessions, codes)

-----------------------------------------------------------------------------
(* Initial state *)

(* llm.py, extract_memories: the validation of the memories the model has   *)
(* answered. A text is the sequence of its characters; a JSON value is a    *)
(* string or null; a key of an entry is there (<<value>>) or not (<<>>).    *)

JsonString(s) == [t |-> "string", s |-> s]

JsonNull(s) == [t |-> "null", s |-> s]

Whitespace == {" "}

RECURSIVE lstrip(_)
lstrip(s) == IF s # <<>> /\ Head(s) \in Whitespace THEN lstrip(Tail(s)) ELSE s

Reverse(s) == [i \in 1..Len(s) |-> s[Len(s) + 1 - i]]

(* str.strip() *)
strip(s) == Reverse(lstrip(Reverse(lstrip(s))))

(* Mutant: a third memory of a category still passes *)
ValidateMemory_third(acc, mem) ==
    IF acc.raised THEN acc
    ELSE
    LET got == IF mem.content = <<>> THEN JsonString(<<>>) ELSE mem.content[1]
    IN  IF got.t # "string"
        THEN [acc EXCEPT !.raised = TRUE]
        ELSE
        LET content == strip(got.s)
            given == IF mem.category = <<>> THEN JsonString("system")
                     ELSE mem.category[1]
            category == IF given.t = "string" /\ given.s \in {"system", "interesting"}
                        THEN given.s ELSE "system"
            memory == [content |-> content, category |-> category]
        IN  IF content = <<>> THEN acc
            ELSE IF category = "interesting"
            THEN IF acc.interesting_count > 2 THEN acc
                 ELSE [acc EXCEPT !.interesting_count = @ + 1,
                                  !.valid_memories = Append(@, memory)]
            ELSE IF acc.system_count > 2 THEN acc
                 ELSE [acc EXCEPT !.system_count = @ + 1,
                                  !.valid_memories = Append(@, memory)]

(* One turn of the loop over the memories (lines 828-850). An entry whose   *)
(* content is not a string has no strip(): the exception ends the loop and  *)
(* is caught at line 853.                                                   *)
ValidateMemory(acc, mem) ==
    IF acc.raised THEN acc
    ELSE
    LET got == IF mem.content = <<>> THEN JsonString(<<>>) ELSE mem.content[1]
    IN  IF got.t # "string"
        THEN [acc EXCEPT !.raised = TRUE]
        ELSE
        LET content == strip(got.s)
            given == IF mem.category = <<>> THEN JsonString("system")
                     ELSE mem.category[1]
            category == IF given.t = "string" /\ given.s \in {"system", "interesting"}
                        THEN given.s ELSE "system"
            memory == [content |-> content, category |-> category]
        IN  IF content = <<>> THEN acc
            ELSE IF category = "interesting"
            THEN IF acc.interesting_count >= 2 THEN acc
                 ELSE [acc EXCEPT !.interesting_count = @ + 1,
                                  !.valid_memories = Append(@, memory)]
            ELSE IF acc.system_count >= 2 THEN acc
                 ELSE [acc EXCEPT !.system_count = @ + 1,
                                  !.valid_memories = Append(@, memory)]

RECURSIVE ValidateMemories(_, _)
ValidateMemories(acc, memories) ==
    IF memories = <<>> THEN acc
    ELSE ValidateMemories(ValidateMemory(acc, Head(memories)), Tail(memories))

(* From the model's answer on: the list returned, [] when an exception was  *)
(* caught.                                                                  *)
extract_memories(memories) ==
    LET acc == ValidateMemories([raised |-> FALSE, valid_memories |-> <<>>,
                                 interesting_count |-> 0, system_count |-> 0],
                                memories)
    IN  IF acc.raised THEN <<>> ELSE acc.valid_memories

(* The entries the model may put in its answer *)
MemoryInputs ==
    {[content |-> <<JsonString(<<"a">>)>>, category |-> <<JsonString("interesting")>>],
     [content |-> <<JsonString(<<" ", "b", " ">>)>>,
      category |-> <<JsonString("interesting")>>],
     [content |-> <<JsonString(<<"c">>)>>, category |-> <<JsonString("system")>>],
     [content |-> <<JsonString(<<"d">>)>>, category |-> <<JsonString("personal")>>],
     [content |-> <<JsonString(<<"e">>)>>, category |-> <<>>],
     [content |-> <<JsonString(<<>>)>>, category |-> <<JsonString("interesting")>>],
     [content |-> <<JsonString(<<" ">>)>>, category |-> <<JsonString("system")>>],
     [content |-> <<>>, category |-> <<JsonString("system")>>],
     [content |-> <<JsonNull(<<>>)>>, category |-> <<JsonString("system")>>]}

NoExtraction == [memories |-> <<>>, returned |-> <<>>]

-----------------------------------------------------------------------------
Init ==
    /\ now = 0
    /\ env = EnvVars
    /\ auth_sessions = EmptyDict
    /\ auth_codes = EmptyDict
    /\ uuids = 0
    /\ provider_used = {}
    /\ stored_at = EmptyDict
    /\ origin = EmptyDict
    /\ grants = EmptyDict
    /\ failed = {}
    /\ calls = <<>>
    /\ extraction = NoExtraction

-----------------------------------------------------------------------------
(* Actions: one request handled, or time passing *)

(* The answers the provider token endpoint can give to the callback: it is  *)
(* asked only by a request that resolves a session.                         *)
CallbackReplies(endpoint, code, state, error) ==
    IF Truthy(error) \/ get_auth_session(auth_sessions, state) = <<>>
    THEN {ConnectionError}
    ELSE TokenReplies(endpoint, code)

Authorize ==
    \E provider \in ProviderInputs, redirect_uri \in RedirectUriInputs,
       state \in ClientStateInputs :
        LET r == auth_authorize(provider, redirect_uri, state)
        IN  /\ r.created # <<>> => uuids < MaxUuids
            /\ auth_sessions' = r.auth_sessions
            /\ auth_codes' = r.auth_codes
            /\ uuids' = uuids + Len(r.created)
            /\ stored_at' = IF r.created = <<>> THEN stored_at
                            ELSE DictSet(stored_at, r.created[1], now)
            /\ UNCHANGED <<now, env, provider_used, origin, grants, failed, calls,
                           extraction>>

(* The history of a callback: the provider has used up the code it          *)
(* accepted, the one-time code stored is recorded with its origin (the     *)
(* session resolved, the endpoint, the post made to the provider, the       *)
(* payload stored), and a session whose exchange ended with 400 is          *)
(* recorded as failed.                                                      *)
Called(endpoint, code, state, token_response, r) ==
    /\ r.issued # <<>> => uuids < MaxUuids
    /\ auth_sessions' = r.auth_sessions
    /\ auth_codes' = r.auth_codes
    /\ uuids' = uuids + Len(r.issued)
    /\ provider_used' = IF r.posts # <<>> /\ Accepted(token_response)
                        THEN provider_used \cup {<<endpoint, code>>}
                        ELSE provider_used
    /\ origin' = IF r.issued = <<>> THEN origin
                 ELSE DictSet(origin, r.issued[1],
                        [session |-> state,
                         session_data |-> auth_sessions[state].data,
                         endpoint |-> endpoint, provider_code |-> code,
                         post |-> r.posts[1],
                         data |-> r.auth_codes[r.issued[1]].data])
    /\ stored_at' = IF r.issued = <<>> THEN stored_at
                    ELSE DictSet(stored_at, r.issued[1], now)
    /\ failed' = IF r.posts # <<>> /\ r.status = 400
                 THEN failed \cup {state} ELSE failed
    /\ UNCHANGED <<now, env, grants, calls,
                   extraction>>

CallbackApple ==
    \E code \in ProviderCodes, state \in IdInputs, error \in ErrorsSent :
        \E token_response \in CallbackReplies("apple", code, state, error) :
            Called("apple", code, state, token_response,
                   auth_callback_apple_post(code, state, error, token_response))

CallbackGoogle ==
    \E code \in ProviderCodes \cup {None}, state \in IdInputs \cup {None},
       error \in ErrorsSent :
        \E token_response \in CallbackReplies("google", code, state, error) :
            Called("google", code, state, token_response,
                   auth_callback_google(code, state, error, token_response))

(* The answers of the federated sign-in and of the token minting: asked     *)
(* only by a request that redeems a code and wants a custom token, the      *)
(* minting only after a sign-in that answered 200.                          *)
FederationReplies(grant_type, code, use_custom_token) ==
    IF /\ use_custom_token
       /\ grant_type = "authorization_code"
       /\ get_auth_code(auth_codes, code) # <<>>
    THEN {<<s, m>> \in SignInReplies \X MintReplies :
            (s.kind = "error" \/ s.status # 200) => m = "error"}
    ELSE {<<ConnectionError, "error">>}

Token ==
    \E grant_type \in GrantTypeInputs, code \in IdInputs,
       redirect_uri \in TokenRedirectUriInputs, use_custom_token \in BOOLEAN :
        \E fed \in FederationReplies(grant_type, code, use_custom_token) :
            LET r == auth_token(grant_type, code, redirect_uri, use_custom_token,
                                fed[1], fed[2])
            IN  /\ auth_sessions' = r.auth_sessions
                /\ auth_codes' = r.auth_codes
                /\ grants' = IF r.status = 200
                             THEN DictSet(grants, code,
                                      IF code \in DOMAIN grants
                                      THEN Min(grants[code] + 1, MaxGrants) ELSE 1)
                             ELSE grants
                /\ UNCHANGED <<now, env, uuids, provider_used, stored_at, origin,
                               failed, calls,
                               extraction>>

(* Mutant: the passing of time purges the entries whose TTL has lapsed *)
Tick_sweeping ==
    /\ now < MaxTime
    /\ now' = now + TickStep
    /\ auth_sessions' = [s \in {x \in DOMAIN auth_sessions :
                                  auth_sessions[x].expires > now + TickStep}
                            |-> auth_sessions[s]]
    /\ auth_codes' = [c \in {x \in DOMAIN auth_codes :
                               auth_codes[x].expires > now + TickStep}
                         |-> auth_codes[c]]
    /\ UNCHANGED <<env, uuids, provider_used, stored_at, origin, grants, failed,
                   calls,
                   extraction>>

Tick ==
    /\ now < MaxTime
    /\ now' = now + TickStep
    /\ UNCHANGED <<env, auth_sessions, auth_codes, uuids, provider_used, stored_at,
                   origin, grants, failed, calls,
                   extraction>>

Next == Authorize \/ CallbackApple \/ CallbackGoogle \/ Token \/ Tick

Spec == Init /\ [][Next]_vars

(* The same service started under every configuration of Configs *)
InitConfig ==
    /\ now = 0
    /\ env \in Configs
    /\ auth_sessions = EmptyDict
    /\ auth_codes = EmptyDict
    /\ uuids = 0
    /\ provider_used = {}
    /\ stored_at = EmptyDict
    /\ origin = EmptyDict
    /\ grants = EmptyDict
    /\ failed = {}
    /\ calls = <<>>
    /\ extraction = NoExtraction

SpecConfig == InitConfig /\ [][Next]_vars

-----------------------------------------------------------------------------
(* The store functions called concurrently: one statement of one caller at  *)
(* a time, or time passing                                                  *)

Setters == {i \in DOMAIN StoreCalls :
               StoreCalls[i].op \in {"set_auth_code", "set_auth_session"}}

Getters == {i \in DOMAIN StoreCalls :
               StoreCalls[i].op \in {"get_auth_code", "get_auth_session"}}

Deleters == {i \in DOMAIN StoreCalls : StoreCalls[i].op = "delete_auth_code"}

SetBuild ==
    \E i \in Setters :
        /\ calls[i].pc = "start"
        /\ calls' = [calls EXCEPT ![i].pc = "built", ![i].at = now,
                         ![i].entry = <<Entry(StoreCalls[i].data[1],
                                              IF StoreCalls[i].op \in CodeOps
                                              THEN CODE_TTL ELSE SESSION_TTL)>>]
        /\ UNCHANGED <<now, env, auth_sessions, auth_codes, uuids, provider_used,
                       stored_at, origin, grants, failed,
                       extraction>>

SetAssign ==
    \E i \in Setters :
        /\ calls[i].pc = "built"
        /\ calls' = [calls EXCEPT ![i].pc = "done"]
        /\ IF StoreCalls[i].op \in CodeOps
           THEN /\ auth_codes' = SetItem(auth_codes, StoreCalls[i].key, calls[i].entry[1])
                /\ UNCHANGED auth_sessions
           ELSE /\ auth_sessions' =
                      SetItem(auth_sessions, StoreCalls[i].key, calls[i].entry[1])
                /\ UNCHANGED auth_codes
        /\ UNCHANGED <<now, env, uuids, provider_used, stored_at, origin, grants,
                       failed,
                       extraction>>

GetFetch ==
    \E i \in Getters :
        /\ calls[i].pc = "start"
        /\ calls' = [calls EXCEPT ![i].pc = "fetched",
                         ![i].fetched = dict_get(IF StoreCalls[i].op \in CodeOps
                                                 THEN auth_codes ELSE auth_sessions,
                                                 StoreCalls[i].key)]
        /\ UNCHANGED <<now, env, auth_sessions, auth_codes, uuids, provider_used,
                       stored_at, origin, grants, failed,
                       extraction>>

GetReturn ==
    \E i \in Getters :
        /\ calls[i].pc = "fetched"
        /\ calls' = [calls EXCEPT ![i].pc = "done", ![i].at = now,
                         ![i].returned = Unexpired(calls[i].fetched)]
        /\ UNCHANGED <<now, env, auth_sessions, auth_codes, uuids, provider_used,
                       stored_at, origin, grants, failed,
                       extraction>>

Delete ==
    \E i \in Deleters :
        /\ calls[i].pc = "start"
        /\ calls' = [calls EXCEPT ![i].pc = "done", ![i].at = now]
        /\ auth_codes' = delete_auth_code(auth_codes, StoreCalls[i].key)
        /\ UNCHANGED <<now, env, auth_sessions, uuids, provider_used, stored_at,
                       origin, grants, failed,
                       extraction>>

NextStore == SetBuild \/ SetAssign \/ GetFetch \/ GetReturn \/ Delete \/ Tick

(* The callers are about to start on empty stores *)
InitStore ==
    /\ now = 0
    /\ env = EnvVars
    /\ auth_sessions = EmptyDict
    /\ auth_codes = EmptyDict
    /\ uuids = 0
    /\ provider_used = {}
    /\ stored_at = EmptyDict
    /\ origin = EmptyDict
    /\ grants = EmptyDict
    /\ failed = {}
    /\ calls = [i \in DOMAIN StoreCalls |-> NotStarted]
    /\ extraction = NoExtraction

SpecStore == InitStore /\ [][NextStore]_vars

-----------------------------------------------------------------------------
(* Memory extraction: the model answers a list of memories, entry by entry, *)
(* and extract_memories validates it                                        *)

ModelAnswers ==
    /\ extraction.returned = <<>>
    /\ Len(extraction.memories) < MaxMemories
    /\ \E mem \in MemoryInputs :
          extraction' = [extraction EXCEPT !.memories = Append(@, mem)]
    /\ UNCHANGED <<now, env, auth_sessions, auth_codes, uuids, provider_used,
                   stored_at, origin, grants, failed, calls>>

ExtractMemories ==
    /\ extraction.returned = <<>>
    /\ extraction' = [extraction EXCEPT
                         !.returned = <<extract_memories(extraction.memories)>>]
    /\ UNCHANGED <<now, env, auth_sessions, auth_codes, uuids, provider_used,
                   stored_at, origin, grants, failed, calls>>

NextMemories == ModelAnswers \/ ExtractMemories

SpecMemories == Init /\ [][NextMemories]_vars

-----------------------------------------------------------------------------
(* Every result a request can get in the current state, over the answers    *)
(* the outside world can give                                              *)

Endpoints == {"apple", "google"}

CallbackCodeInputs(endpoint) ==
    IF endpoint = "apple" THEN ProviderCodes ELSE ProviderCodes \cup {None}

CallbackStateInputs(endpoint) ==
    IF endpoint = "apple" THEN IdInputs ELSE IdInputs \cup {None}

CallbackResults(endpoint, code, state, error) ==
    {IF endpoint = "apple"
     THEN auth_callback_apple_post(code, state, error, t)
     ELSE auth_callback_google(code, state, error, t) : t \in TokenReplies(endpoint, code)}

TokenResults(grant_type, code, use_custom_token) ==
    {auth_token(grant_type, code, u, use_custom_token, f[1], f[2]) :
        u \in TokenRedirectUriInputs, f \in SignInReplies \X MintReplies}

Expired(id, ttl) == now >= stored_at[id] + ttl

(* The tokens the provider gave for the one-time code c *)
TokensOf(c) == ProviderTokens(origin[c].endpoint, origin[c].provider_code)

-----------------------------------------------------------------------------
(* C1: once a /token request has redeemed a code with 200, every later      *)
(* /token request with that code, whatever its other parameters and         *)
(* whatever has happened in between, gets 400 and no tokens; the detail is  *)
(* 'Invalid or expired code' for a request with grant_type                  *)
(* authorization_code (another grant type is refused before the lookup).    *)
C1_RedeemedCodeRejected ==
    \A c \in DOMAIN grants :
        \A g \in GrantTypeInputs, u \in BOOLEAN :
            \A r \in TokenResults(g, c, u) :
                /\ r.status = 400
                /\ r.body = EmptyDict
                /\ r.auth_codes = auth_codes
                /\ g = "authorization_code" => r.detail = "Invalid or expired code"

(* a code issued by a callback has been redeemed and its TTL has not lapsed *)
C1_Witness ==
    \E c \in DOMAIN grants :
        /\ c \in DOMAIN origin
        /\ grants[c] = 1
        /\ ~Expired(c, CODE_TTL)

(* C2: whatever the order in which the /token requests presenting one code  *)
(* are handled, at most one of them gets the token response, and once it    *)
(* has, the code is absent from the store for all the others, which get    *)
(* 400. (A handler runs from its lookup to its removal within one action:   *)
(* its body does not suspend in between.)                                   *)
C2_AtMostOneGrant ==
    \A c \in DOMAIN grants :
        /\ grants[c] <= 1
        /\ c \notin DOMAIN auth_codes
        /\ get_auth_code(auth_codes, c) = <<>>
        /\ \A u \in BOOLEAN :
              \A r \in TokenResults("authorization_code", c, u) :
                  r.status = 400 /\ r.signin = <<>> /\ r.minted = <<>>

(* a code has been redeemed while a second code is still waiting *)
C2_Witness ==
    \E c \in DOMAIN grants, d \in DOMAIN auth_codes :
        grants[c] = 1 /\ ~Expired(c, CODE_TTL) /\ d # c

(* C3: in both stores a get returns the stored value exactly when an entry  *)
(* exists and the time is strictly before put time + ttl; from the expiry   *)
(* instant on it returns absent, as for a key never stored, with the entry  *)
(* still in the store.                                                      *)
C3_GetHonoursTtl ==
    \A k \in IdInputs :
        /\ get_auth_session(auth_sessions, k) =
              IF k \in DOMAIN auth_sessions /\ now < stored_at[k] + SESSION_TTL
              THEN <<auth_sessions[k].data>> ELSE <<>>
        /\ get_auth_code(auth_codes, k) =
              IF k \in DOMAIN auth_codes /\ now < stored_at[k] + CODE_TTL
              THEN <<auth_codes[k].data>> ELSE <<>>

(* a session and a code are in the stores at their expiry instant *)
C3_Witness ==
    /\ \E k \in DOMAIN auth_sessions : now = stored_at[k] + SESSION_TTL
    /\ \E k \in DOMAIN auth_codes : now = stored_at[k] + CODE_TTL

C7_NoSessionNoExchange ==
    \A e \in Endpoints :
        \A code \in CallbackCodeInputs(e), state \in CallbackStateInputs(e),
           error \in ErrorInputs :
            (state \notin DOMAIN auth_sessions \/ Expired(state, SESSION_TTL)) =>
                \A r \in CallbackResults(e, code, state, error) :
                    /\ r.status = 400
                    /\ r.posts = <<>>
                    /\ r.issued = <<>>
                    /\ r.auth_codes = auth_codes

(* a session that has issued a code has lapsed, with an authorization code  *)
(* the provider would still accept                                          *)
C7_Witness ==
    \E c \in DOMAIN origin :
        /\ Expired(origin[c].session, SESSION_TTL)
        /\ \E e \in Endpoints, code \in ProviderCodes : <<e, code>> \notin provider_used

(* C8: a /token request with a valid code and use_custom_token true whose   *)
(* custom token generation fails (no API key, sign-in not answered with     *)
(* 200, no local account id, minting error) still gets 200 with the         *)
(* id_token and access_token of the code, and no custom_token field.        *)
FederationFails(signin_response, mint) ==
    \/ "FIREBASE_API_KEY" \notin env
    \/ signin_response.kind = "error"
    \/ signin_response.status # 200
    \/ "localId" \notin DOMAIN signin_response.json
    \/ mint = "error"

C8_FederationFailureIsNotFatal ==
    \A c \in DOMAIN auth_codes :
        ~Expired(c, CODE_TTL) =>
            \A u \in TokenRedirectUriInputs, s \in SignInReplies, m \in MintReplies :
                LET r == auth_token("authorization_code", c, u, TRUE, s, m)
                IN  FederationFails(s, m) =>
                        /\ r.status = 200
                        /\ r.body.id_token = TokensOf(c).id_token
                        /\ r.body.access_token = DictGet(TokensOf(c), "access_token")
                        /\ "custom_token" \notin DOMAIN r.body
                        /\ r.minted = <<>>

(* a valid code is waiting in a service that has no API key configured *)
C8_Witness ==
    \E c \in DOMAIN auth_codes :
        ~Expired(c, CODE_TTL) /\ "FIREBASE_API_KEY" \notin env

(* C9, as claimed: the provider of every one-time code ever stored is the   *)
(* provider recorded in the session that its callback resolved.             *)
C9_CodeProviderIsSessionProvider ==
    \A c \in DOMAIN origin :
        json_loads(origin[c].data)["provider"] = origin[c].session_data.provider

(* C10: a /token request with a code whose TTL has lapsed, redeemed or not, *)
(* or with a code that was never issued, gets 400 and no tokens and leaves  *)
(* the code store as it is.                                                 *)
C10_ExpiredOrUnknownCodeRejected ==
    \A c \in IdInputs :
        (c \notin DOMAIN origin \/ Expired(c, CODE_TTL)) =>
            \A g \in GrantTypeInputs, u \in BOOLEAN :
                \A r \in TokenResults(g, c, u) :
                    /\ r.status = 400
                    /\ r.body = EmptyDict
                    /\ r.signin = <<>>
                    /\ r.auth_codes = auth_codes

(* a code that was never redeemed is in the store at its expiry instant *)
C10_Witness ==
    \E c \in DOMAIN auth_codes :
        c \notin DOMAIN grants /\ now = stored_at[c] + CODE_TTL

-----------------------------------------------------------------------------
(* One callback request answered by the provider with t *)
Callback(endpoint, code, state, error, t) ==
    IF endpoint = "apple"
    THEN auth_callback_apple_post(code, state, error, t)
    ELSE auth_callback_google(code, state, error, t)

(* Answers of a provider token endpoint that are not 200, or are 200 and    *)
(* carry no identity token (the field missing, null or empty)               *)
RejectingReplies ==
    {HttpReply(400, [error |-> "invalid_grant"]),
     HttpReply(401, [error |-> "invalid_client"]),
     HttpReply(500, EmptyDict),
     HttpReply(201, [id_token |-> "idt", access_token |-> "at"]),
     HttpReply(200, [token_type |-> "Bearer"]),
     HttpReply(200, [access_token |-> "at"]),
     HttpReply(200, [id_token |-> None, access_token |-> "at"]),
     HttpReply(200, [id_token |-> "", access_token |-> "at"])}

LiveSessions == {s \in DOMAIN auth_sessions : ~Expired(s, SESSION_TTL)}

LiveCodes == {c \in DOMAIN auth_codes : ~Expired(c, CODE_TTL)}

(* C11: at both endpoints, a callback that resolves a session and whose     *)
(* post to the provider token endpoint is answered with a status other than *)
(* 200, or with 200 and no identity token, ends with 400 and stores no      *)
(* code: the code store is left as it is.                                   *)
C11_RejectedExchangeStoresNothing ==
    \A e \in Endpoints, code \in ProviderCodes, state \in LiveSessions :
        \A t \in RejectingReplies :
            LET r == Callback(e, code, state, None, t)
            IN  /\ r.posts # <<>>
                /\ r.status = 400
                /\ r.issued = <<>>
                /\ r.auth_codes = auth_codes

(* the exchange of a live session has ended with 400 and the session has    *)
(* issued no code                                                           *)
C11_Witness ==
    \E s \in failed \cap LiveSessions :
        \A c \in DOMAIN origin : origin[c].session # s

(* C12, as claimed: a flow that has failed at the callback step, or whose   *)
(* session or code TTL has lapsed, is never moved on: no callback issues a  *)
(* code from the session of a failed flow or from a lapsed session, and no  *)
(* /token request redeems a code once the TTL of the code or of its session *)
(* has lapsed.                                                              *)
C12_FailedAndExpiredAreTerminal ==
    /\ \A s \in DOMAIN auth_sessions :
          (s \in failed \/ Expired(s, SESSION_TTL)) =>
              \A e \in Endpoints, code \in ProviderCodes :
                  \A r \in CallbackResults(e, code, s, None) : r.issued = <<>>
    /\ \A c \in DOMAIN origin :
          (Expired(c, CODE_TTL) \/ Expired(origin[c].session, SESSION_TTL)) =>
              \A u \in BOOLEAN :
                  \A r \in TokenResults("authorization_code", c, u) : r.status # 200

UnsupportedProviders == (ProviderInputs \ {"google", "apple"}) \cup {"Google", "APPLE", ""}

(* C13: an authorize request whose provider is neither 'google' nor 'apple' *)
(* gets 400 'Unsupported provider', no Location, and neither draws a        *)
(* session id nor changes the session store.                                *)
C13_UnsupportedProviderRefused ==
    \A provider \in UnsupportedProviders, redirect_uri \in RedirectUriInputs,
       state \in ClientStateInputs :
        LET r == auth_authorize(provider, redirect_uri, state)
        IN  /\ r.status = 400
            /\ r.detail = "Unsupported provider"
            /\ "location" \notin DOMAIN r.body
            /\ r.created = <<>>
            /\ r.auth_sessions = auth_sessions

(* sessions are in the store and a request with a supported provider would  *)
(* create another one                                                       *)
C13_Witness ==
    /\ DOMAIN auth_sessions # {}
    /\ uuids < MaxUuids
    /\ \A provider \in Providers :
          auth_authorize(provider, "app://cb", None).created = <<uuid4(uuids)>>

UnsupportedGrantTypes ==
    (GrantTypeInputs \ {"authorization_code"}) \cup {"", "Authorization_Code"}

(* C14: a /token request with a grant type other than authorization_code    *)
(* gets 400 'Unsupported grant type' and leaves both stores as they are:    *)
(* the code it presented is still in the store, and a request with          *)
(* grant_type authorization_code made next redeems it.                      *)
C14_BadGrantTypeKeepsCode ==
    \A c \in LiveCodes, u \in BOOLEAN :
        /\ \A g \in UnsupportedGrantTypes :
              \A r \in TokenResults(g, c, u) :
                  /\ r.status = 400
                  /\ r.detail = "Unsupported grant type"
                  /\ r.auth_codes = auth_codes
                  /\ r.auth_sessions = auth_sessions
                  /\ c \in DOMAIN r.auth_codes
        /\ \A r \in TokenResults("authorization_code", c, u) :
              r.status = 200 /\ c \notin DOMAIN r.auth_codes

(* a code within its TTL is in the store *)
C14_Witness ==
    \E c \in LiveCodes : c \notin DOMAIN grants /\ now > stored_at[c]

(* C15: the 200 response of a /token request carries the values the         *)
(* callback that issued the code got from the provider: the provider of the *)
(* endpoint, the identity token and the access token (None when the         *)
(* provider gave none) of that exchange, the provider id, token_type        *)
(* 'Bearer' and expires_in; no token of another code is in it.              *)
C15_ResponseCarriesStoredPayload ==
    \A c \in LiveCodes, u \in BOOLEAN :
        \A r \in TokenResults("authorization_code", c, u) :
            /\ r.status = 200
            /\ DOMAIN r.body \ {"custom_token"} =
                  {"provider", "id_token", "access_token", "provider_id", "token_type",
                   "expires_in"}
            /\ r.body.provider = origin[c].endpoint
            /\ r.body.id_token = TokensOf(c).id_token
            /\ r.body.access_token = DictGet(TokensOf(c), "access_token")
            /\ r.body.provider_id = origin[c].endpoint \o ".com"
            /\ r.body.token_type = "Bearer"
            /\ r.body.expires_in = EXPIRES_IN
            /\ \A d \in DOMAIN origin \ {c} :
                  /\ r.body.id_token # TokensOf(d).id_token
                  /\ r.body.access_token # DictGet(TokensOf(d), "access_token")
                        \/ r.body.access_token = None

(* two codes of different exchanges are in the store, one with an access    *)
(* token and one without                                                    *)
C15_Witness ==
    \E c, d \in LiveCodes :
        /\ "access_token" \in DOMAIN TokensOf(c)
        /\ "access_token" \notin DOMAIN TokensOf(d)

-----------------------------------------------------------------------------
(* Reading a URL back: the query after the first "?", cut at every "&",     *)
(* each piece a name, "=" and the raw value; unquote turns every            *)
(* percent-escape back into its character.                                  *)
RECURSIVE Split(_, _)
Split(s, sep) ==
    IF \A i \in 1..Len(s) : s[i] # sep
    THEN <<s>>
    ELSE LET i == CHOOSE k \in 1..Len(s) : s[k] = sep /\ \A j \in 1..(k - 1) : s[j] # sep
         IN  <<SubSeq(s, 1, i - 1)>> \o Split(SubSeq(s, i + 1, Len(s)), sep)

QueryOf(url) == Split(url, "?")[2]

QueryPieces(url) ==
    LET pieces == Split(QueryOf(url), "&") IN {pieces[i] : i \in 1..Len(pieces)}

RawValues(url, name) ==
    {SubSeq(p, 3, Len(p)) : p \in {q \in QueryPieces(url) :
                                      Len(q) >= 2 /\ q[1] = name /\ q[2] = "="}}

unquote(string) ==
    [i \in 1..Len(string) |->
        IF string[i] \in Escapes THEN Unescaped(string[i]) ELSE string[i]]

(* A raw value is percent-encoded when it has no character outside the      *)
(* unreserved ones and "/" that is not written as a percent-escape.         *)
PercentEncoded(raw) == \A i \in 1..Len(raw) : raw[i] \notin Special \ {"/"}

CallbackUrl(provider) ==
    api_base_url \o <<"/", "v1", "/", "auth", "/", "callback", "/", provider>>

(* C16, as claimed: for each supported provider the Location of an          *)
(* authorize request has exactly one state parameter, which reads back as   *)
(* the id of the session just created, exactly one redirect_uri parameter,  *)
(* which reads back as the base URL followed by that provider's callback    *)
(* path, and every parameter value in it is percent-encoded.                *)
C16_AuthorizeUrlEncoded ==
    \A provider \in Providers, redirect_uri \in RedirectUriInputs,
       state \in ClientStateInputs :
        LET r == auth_authorize(provider, redirect_uri, state)
        IN  r.status = REDIRECT_STATUS =>
                /\ \E raw \in RawValues(r.body.location, "state") :
                      /\ RawValues(r.body.location, "state") = {raw}
                      /\ <<unquote(raw)[1]>> = r.created
                /\ \E raw \in RawValues(r.body.location, "redirect_uri") :
                      /\ RawValues(r.body.location, "redirect_uri") = {raw}
                      /\ unquote(raw) = CallbackUrl(provider)
                /\ \A q \in QueryPieces(r.body.location) :
                      PercentEncoded(SubSeq(q, 3, Len(q)))

(* The Location that the authorize request of session s was answered with:  *)
(* the URL of the session's provider for the session's id.                  *)
IssuedLocation(s) ==
    IF auth_sessions[s].data.provider = "apple"
    THEN _apple_auth_redirect(env, s).url
    ELSE _google_auth_redirect(env, s).url

EmbeddedCallbackUrls(provider) ==
    {unquote(raw) : raw \in UNION {RawValues(IssuedLocation(s), "redirect_uri") :
        s \in {x \in DOMAIN auth_sessions : auth_sessions[x].data.provider = provider}}}

Exchange(endpoint, code, session_data, t) ==
    IF endpoint = "apple"
    THEN _exchange_apple_code(env, code, session_data, t)
    ELSE _exchange_google_code(env, code, session_data, t)

AppleSecretsNow ==
    {r.posts[1].data.client_secret :
        r \in {auth_callback_apple_post(code, state, None, t) :
                 code \in ProviderCodes, state \in LiveSessions,
                 t \in RejectingReplies \cup {ConnectionError}}}

AppleCodes == {c \in DOMAIN origin : origin[c].endpoint = "apple"}

IssuedSecret(c) == origin[c].post.data.client_secret

(* C18: the client secret of every post to Apple's token endpoint has       *)
(* exp - iat = 3600, iat the time of the exchange, iss the team id, sub the *)
(* client id and the key id as kid in its header.                           *)
C18_ClientSecretClaims ==
    /\ \A secret \in AppleSecretsNow :
          /\ secret.payload.exp - secret.payload.iat = 3600
          /\ secret.payload.iat = now
          /\ secret.payload.iss = EnvValue.APPLE_TEAM_ID
          /\ secret.payload.sub = EnvValue.APPLE_CLIENT_ID
          /\ secret.headers.kid = EnvValue.APPLE_KEY_ID
    /\ \A c \in AppleCodes :
          /\ IssuedSecret(c).payload.exp - IssuedSecret(c).payload.iat = 3600
          /\ IssuedSecret(c).payload.iat = stored_at[c]
          /\ IssuedSecret(c).payload.iss = EnvValue.APPLE_TEAM_ID
          /\ IssuedSecret(c).payload.sub = EnvValue.APPLE_CLIENT_ID
          /\ IssuedSecret(c).headers.kid = EnvValue.APPLE_KEY_ID

(* an exchange with Apple has issued a code after the clock has advanced,   *)
(* and another one can be made now                                         *)
C18_Witness ==
    /\ \E c \in AppleCodes : stored_at[c] > 0
    /\ AppleSecretsNow # {}

(* C19, as claimed: the client secrets of any two exchanges with Apple      *)
(* differ in iat, and none is posted at or after its exp.                   *)
C19_SecretsDifferInIat ==
    /\ \A c1, c2 \in AppleCodes :
          c1 # c2 => IssuedSecret(c1).payload.iat # IssuedSecret(c2).payload.iat
    /\ \A c \in AppleCodes : IssuedSecret(c).payload.exp > stored_at[c]

(* C19, amended: every exchange with Apple posts a client secret generated  *)
(* in that call: its iat is the time (in whole seconds) of the call, so the *)
(* secrets of two exchanges have the same iat exactly when the exchanges    *)
(* are made in the same second, and its exp is later than the time of the   *)
(* exchange.                                                                *)
C19_SecretFreshPerExchange ==
    /\ \A secret \in AppleSecretsNow :
          secret.payload.iat = now /\ secret.payload.exp > now
    /\ \A c \in AppleCodes :
          /\ IssuedSecret(c).payload.iat = stored_at[c]
          /\ IssuedSecret(c).payload.exp > stored_at[c]
    /\ \A c1, c2 \in AppleCodes :
          (IssuedSecret(c1).payload.iat = IssuedSecret(c2).payload.iat)
              <=> (stored_at[c1] = stored_at[c2])

(* two exchanges with Apple have issued codes at different times *)
C19_Witness ==
    \E c1, c2 \in AppleCodes : stored_at[c1] < stored_at[c2]

(* C20: a /token request posts to the federated sign-in, or has a custom    *)
(* token minted, only when it has use_custom_token true, grant type         *)
(* authorization_code and a code that is in the store, within its TTL and   *)
(* not redeemed before.                                                     *)
C20_FederationOnlyOnOptIn ==
    \A g \in GrantTypeInputs \cup UnsupportedGrantTypes, c \in IdInputs, u \in BOOLEAN :
        \A r \in TokenResults(g, c, u) :
            (r.signin # <<>> \/ r.minted # <<>>) =>
                /\ u
                /\ g = "authorization_code"
                /\ c \in LiveCodes
                /\ c \notin DOMAIN grants
                /\ r.status = 200

(* a code waits in the store, another has been redeemed, a third has lapsed *)
(* unredeemed: the first one can be redeemed with a custom token            *)
C20_Witness ==
    /\ \E c \in LiveCodes :
          \E r \in TokenResults("authorization_code", c, TRUE) : r.minted # <<>>
    /\ \E c \in DOMAIN grants : c \notin DOMAIN auth_codes

-----------------------------------------------------------------------------
(* Answers of the federated sign-in: those of SignInReplies, and 200 with   *)
(* an empty or null local account id                                        *)
SignInAnswers ==
    SignInReplies \cup {HttpReply(200, [localId |-> "", idToken |-> "fb"]),
                        HttpReply(200, [localId |-> None, idToken |-> "fb"]),
                        HttpReply(500, [localId |-> "uid-1"])}

SignedIn(s) ==
    s.kind = "http" /\ s.status = 200 /\ Truthy(DictGet(s.json, "localId"))

(* C21: the custom token generation mints a token only after the sign-in    *)
(* has answered 200 with a non-empty local account id, for that account id  *)
(* and for a supported provider; when the sign-in answers otherwise, or the *)
(* provider is not supported, it raises and mints nothing. A /token request *)
(* has a custom_token in its response exactly when one was minted.          *)
C21_MintOnlyAfterSignIn ==
    /\ \A provider \in ProviderInputs \cup {None}, s \in SignInAnswers, m \in MintReplies :
          LET g == _generate_custom_token(env, provider, "idt", None, s, m)
          IN  /\ g.minted # <<>> =>
                    /\ SignedIn(s)
                    /\ provider \in Providers
                    /\ g.signin # <<>>
                    /\ g.minted = <<s.json.localId>>
                    /\ ~g.raised
                    /\ g.value = create_custom_token(s.json.localId)
              /\ (~SignedIn(s) \/ provider \notin Providers) =>
                    g.raised /\ g.minted = <<>>
              /\ provider \notin Providers => g.signin = <<>>
    /\ \A c \in LiveCodes, s \in SignInAnswers, m \in MintReplies :
          LET r == auth_token("authorization_code", c, "app://cb", TRUE, s, m)
          IN  /\ r.minted # <<>> => SignedIn(s) /\ r.minted = <<s.json.localId>>
              /\ ("custom_token" \in DOMAIN r.body) <=> (r.minted # <<>>)
              /\ r.minted # <<>> =>
                    r.body.custom_token = create_custom_token(s.json.localId)

(* codes of both providers wait in the store: a /token request can have a   *)
(* token minted for either                                                  *)
C21_Witness ==
    \A e \in Endpoints :
        \E c \in LiveCodes :
            /\ origin[c].endpoint = e
            /\ \E s \in SignInAnswers :
                  auth_token("authorization_code", c, "app://cb", TRUE, s, "minted").minted
                      # <<>>

(* The environment variable that holds the client identifier of a provider *)
ClientIdVar(provider) ==
    IF provider = "apple" THEN "APPLE_CLIENT_ID" ELSE "GOOGLE_CLIENT_ID"

(* C23: an authorize request for a supported provider whose client          *)
(* identifier is not configured gets 500 with the provider's 'not           *)
(* configured' detail and no Location; with the client identifier           *)
(* configured it gets the redirect.                                         *)
C23_MissingClientIdIs500 ==
    \A provider \in Providers, redirect_uri \in RedirectUriInputs,
       state \in ClientStateInputs :
        LET r == auth_authorize(provider, redirect_uri, state)
        IN  IF ClientIdVar(provider) \in env
            THEN r.status = REDIRECT_STATUS /\ "location" \in DOMAIN r.body
            ELSE /\ r.status = 500
                 /\ r.detail = ClientIdVar(provider) \o " not configured"
                 /\ "location" \notin DOMAIN r.body

(* an authorize request has been handled for a provider whose client        *)
(* identifier the service lacks                                             *)
C23_Witness ==
    \E s \in DOMAIN auth_sessions :
        ClientIdVar(auth_sessions[s].data.provider) \notin env

(* C24: two /token requests that differ only in redirect_uri get the same   *)
(* result in every state: the same response, the same calls to the          *)
(* federated sign-in and the same stores afterwards.                        *)
C24_RedirectUriIgnored ==
    \A g \in GrantTypeInputs, c \in IdInputs, u \in BOOLEAN,
       f \in SignInReplies \X MintReplies :
        LET r == auth_token(g, c, "app://cb", u, f[1], f[2])
        IN  \A redirect_uri \in TokenRedirectUriInputs \cup {""} :
                auth_token(g, c, redirect_uri, u, f[1], f[2]) = r

(* a code waits whose session recorded another redirect_uri than the one a  *)
(* /token request can present, and another code has been redeemed           *)
C24_Witness ==
    /\ \E c \in LiveCodes :
          \E u \in TokenRedirectUriInputs : origin[c].session_data.redirect_uri # u
    /\ DOMAIN grants # {}

(* C25: whatever the provider and the sign-in answer, a callback request    *)
(* posts at most once to the provider token endpoint and a /token request   *)
(* posts at most once to the federated sign-in.                             *)
C25_NoInternalRetry ==
    /\ \A e \in Endpoints :
          \A code \in CallbackCodeInputs(e), state \in CallbackStateInputs(e),
             error \in ErrorInputs :
              \A t \in TokenReplies(e, code) \cup RejectingReplies \cup {ConnectionError} :
                  Len(Callback(e, code, state, error, t).posts) <= 1
    /\ \A g \in GrantTypeInputs, c \in IdInputs, u \in BOOLEAN :
          \A s \in SignInAnswers \cup {ConnectionError}, m \in MintReplies :
              /\ Len(auth_token(g, c, "app://cb", u, s, m).signin) <= 1
              /\ Len(auth_token(g, c, "app://cb", u, s, m).minted) <= 1

(* the exchange of a live session has been rejected and a code waits for a  *)
(* /token request                                                           *)
C25_Witness ==
    failed \cap LiveSessions # {} /\ LiveCodes # {}

-----------------------------------------------------------------------------
(* x is the entry of one complete set of the key: the data that set was    *)
(* given together with the expiry that set computed                        *)
CompleteEntry(x, op, key) ==
    /\ DOMAIN x = {"data", "expires"}
    /\ \E i \in Setters :
          /\ StoreCalls[i].op = op
          /\ StoreCalls[i].key = key
          /\ calls[i].pc = "done"
          /\ x.data = StoreCalls[i].data[1]
          /\ x.expires = calls[i].at + SESSION_TTL

(* C22: under every interleaving of the statements of sets, gets and a      *)
(* delete on one key, each store holds only entries of one complete set     *)
(* (its data with its expiry), a get fetches nothing or such an entry, and  *)
(* it returns nothing or the data of the entry it fetched, whose expiry is  *)
(* later than the time of the return.                                       *)
C22_StoreAtomicPerKey ==
    /\ \A k \in DOMAIN auth_codes : CompleteEntry(auth_codes[k], "set_auth_code", k)
    /\ \A k \in DOMAIN auth_sessions :
          CompleteEntry(auth_sessions[k], "set_auth_session", k)
    /\ \A i \in Getters :
          /\ calls[i].fetched # <<>> =>
                CompleteEntry(calls[i].fetched[1],
                              IF StoreCalls[i].op \in CodeOps
                              THEN "set_auth_code" ELSE "set_auth_session",
                              StoreCalls[i].key)
          /\ calls[i].pc = "done" =>
                calls[i].returned =
                    IF calls[i].fetched # <<>> /\ calls[i].fetched[1].expires > calls[i].at
                    THEN <<calls[i].fetched[1].data>> ELSE <<>>

(* a get has returned the data of an entry that was fetched before another  *)
(* set replaced it and the delete removed it                                *)
C22_Witness ==
    /\ \A i \in Setters \cup Deleters : calls[i].pc = "done"
    /\ \E i \in Getters :
          /\ StoreCalls[i].op = "get_auth_code"
          /\ calls[i].pc = "done"
          /\ calls[i].returned = <<"d1">>
          /\ StoreCalls[i].key \notin DOMAIN auth_codes
    /\ \E i \in Setters :
          /\ StoreCalls[i].op = "set_auth_code"
          /\ StoreCalls[i].data = <<"d2">>
          /\ calls[i].at > 0

-----------------------------------------------------------------------------
(* Every result an authorize request can get in the current state *)
AuthorizeResults ==
    {auth_authorize(provider, redirect_uri, state) :
        provider \in ProviderInputs, redirect_uri \in RedirectUriInputs,
        state \in ClientStateInputs}

AllCallbackResults ==
    UNION {CallbackResults(e, code, state, error) :
        e \in Endpoints, code \in ProviderCodes \cup {None},
        state \in IdInputs \cup {None}, error \in ErrorInputs}

AllTokenResults ==
    UNION {TokenResults(g, c, u) : g \in GrantTypeInputs, c \in IdInputs, u \in BOOLEAN}

(* What a request does to the stores: nothing when it ends with an error    *)
(* before the point where it writes, one session added by an authorize that *)
(* redirects, one code added by a callback that answers 200, the code       *)
(* removed by a /token request that finds it.                               *)
RequestsChangeStoresAsStated ==
    /\ \A r \in AuthorizeResults :
          /\ r.auth_codes = auth_codes
          /\ IF r.status = REDIRECT_STATUS
             THEN /\ r.created[1] \notin DOMAIN auth_sessions
                  /\ r.auth_sessions =
                        DictSet(auth_sessions, r.created[1], r.auth_sessions[r.created[1]])
             ELSE r.created = <<>> => r.auth_sessions = auth_sessions
    /\ \A r \in AllCallbackResults :
          /\ r.auth_sessions = auth_sessions
          /\ IF r.status = 200
             THEN /\ r.issued[1] \notin DOMAIN auth_codes
                  /\ r.auth_codes =
                        DictSet(auth_codes, r.issued[1], r.auth_codes[r.issued[1]])
             ELSE r.auth_codes = auth_codes
    /\ \A g \in GrantTypeInputs, c \in IdInputs, u \in BOOLEAN :
          \A r \in TokenResults(g, c, u) :
              /\ r.auth_sessions = auth_sessions
              /\ r.auth_codes = IF g = "authorization_code" /\ c \in LiveCodes
                                THEN DictPop(auth_codes, c) ELSE auth_codes

(* One step: time passing changes neither store; a step that changes the    *)
(* session store adds one session and leaves the code store; a step that    *)
(* changes the code store adds one code or removes one that is within its   *)
(* TTL, and leaves the session store.                                       *)
StoresStep ==
    /\ now' # now => auth_sessions' = auth_sessions /\ auth_codes' = auth_codes
    /\ auth_sessions' # auth_sessions =>
          /\ auth_codes' = auth_codes
          /\ \E id \in DOMAIN auth_sessions' \ DOMAIN auth_sessions :
                auth_sessions' = DictSet(auth_sessions, id, auth_sessions'[id])
    /\ auth_codes' # auth_codes =>
          /\ auth_sessions' = auth_sessions
          /\ \/ \E id \in DOMAIN auth_codes' \ DOMAIN auth_codes :
                   auth_codes' = DictSet(auth_codes, id, auth_codes'[id])
             \/ \E id \in DOMAIN auth_codes :
                   /\ auth_codes[id].expires > now
                   /\ auth_codes' = DictPop(auth_codes, id)

(* C26: the stores change only through the three operations: an authorize   *)
(* that redirects adds one session, a callback that answers 200 adds one    *)
(* code, a /token request that finds a valid code removes it; time passing  *)
(* and requests that end with an error before those points change neither   *)
(* store, and entries whose TTL has lapsed stay stored.                     *)
C26_StoresChangeOnlyByOperations ==
    []RequestsChangeStoresAsStated /\ [][StoresStep]_vars

(* a session and a code whose TTL has lapsed are still stored, and a code   *)
(* has been redeemed                                                        *)
C26_Witness ==
    /\ \E s \in DOMAIN auth_sessions : Expired(s, SESSION_TTL)
    /\ \E c \in DOMAIN auth_codes : Expired(c, CODE_TTL)
    /\ \E c \in DOMAIN grants : c \notin DOMAIN auth_codes

(* C27: every entry of the code store holds the payload of an exchange that *)
(* the provider accepted: a non-empty id_token, the one the provider gave   *)
(* for the authorization code, and a supported provider; it was stored by a *)
(* callback that resolved a session that is in the session store and was    *)
(* within its TTL at that time.                                             *)
C27_CodeComesFromExchange ==
    \A c \in DOMAIN auth_codes :
        LET payload == json_loads(auth_codes[c].data)
        IN  /\ Truthy(payload.id_token)
            /\ payload.provider \in Providers
            /\ c \in DOMAIN origin
            /\ origin[c].data = auth_codes[c].data
            /\ payload.provider = origin[c].endpoint
            /\ payload.id_token = TokensOf(c).id_token
            /\ <<origin[c].endpoint, origin[c].provider_code>> \in provider_used
            /\ origin[c].session \in DOMAIN auth_sessions
            /\ stored_at[c] >= stored_at[origin[c].session]
            /\ stored_at[c] < stored_at[origin[c].session] + SESSION_TTL

(* a code is within its TTL while the TTL of its session has lapsed *)
C27_Witness ==
    \E c \in LiveCodes : Expired(origin[c].session, SESSION_TTL)

(* C28: a /token request that finds a valid code answers 200 and leaves the *)
(* code store without that code, whatever the federation answers; when the  *)
(* custom token generation is called, the code is already gone from the     *)
(* store it finds.                                                          *)
C28_DeleteBeforeRespond ==
    \A c \in LiveCodes, u \in BOOLEAN, s \in SignInAnswers, m \in MintReplies :
        LET r == auth_token("authorization_code", c, "app://cb", u, s, m)
        IN  /\ r.status = 200
            /\ c \notin DOMAIN r.auth_codes
            /\ r.auth_codes = DictPop(auth_codes, c)
            /\ r.seen = IF u THEN <<DictPop(auth_codes, c)>> ELSE <<>>
            /\ r.signin # <<>> => r.seen # <<>> /\ c \notin DOMAIN r.seen[1]

(* a code has been redeemed and is gone from the store, where another code *)
(* still waits within its TTL                                              *)
C28_Witness ==
    \E c \in DOMAIN grants, d \in LiveCodes :
        c # d /\ c \in DOMAIN origin /\ c \notin DOMAIN auth_codes

(* What a request does to the sessions that are stored: nothing *)
RequestsKeepSessions ==
    /\ \A s \in DOMAIN auth_sessions :
          auth_sessions[s].expires = stored_at[s] + SESSION_TTL
    /\ \A r \in AuthorizeResults \cup AllCallbackResults \cup AllTokenResults :
          \A s \in DOMAIN auth_sessions :
              s \in DOMAIN r.auth_sessions /\ r.auth_sessions[s] = auth_sessions[s]

SessionsStep ==
    \A s \in DOMAIN auth_sessions :
        s \in DOMAIN auth_sessions' /\ auth_sessions'[s] = auth_sessions[s]

(* C29: a stored session is never changed: no step and no request changes   *)
(* its provider, redirect_uri, client state or expiry, and its expiry is    *)
(* the time of its authorize request + 300 whatever lookups have been made. *)
C29_SessionsNeverChange ==
    []RequestsKeepSessions /\ [][SessionsStep]_vars

(* a session has been resolved by a callback, its code has been redeemed,   *)
(* and another session has been created after it                            *)
C29_Witness ==
    \E c \in DOMAIN grants, s \in DOMAIN auth_sessions :
        /\ c \in DOMAIN origin
        /\ s # origin[c].session
        /\ stored_at[s] > stored_at[origin[c].session]

(* C30: the page of a callback that answers 200 carries the one-time code   *)
(* that this request has stored (it is in the code store afterwards and was *)
(* not before), the redirect_uri recorded in the session, and the client    *)
(* state recorded in the session, the empty string when there was none.     *)
C30_CallbackPageCarriesCodeAndSession ==
    \A e \in Endpoints, code \in ProviderCodes, state \in LiveSessions :
        \A r \in CallbackResults(e, code, state, None) :
            r.status = 200 =>
                LET session_data == auth_sessions[state].data
                IN  /\ r.issued = <<r.body.code>>
                    /\ r.body.code \notin DOMAIN auth_codes
                    /\ r.body.code \in DOMAIN r.auth_codes
                    /\ r.auth_codes[r.body.code].expires = now + CODE_TTL
                    /\ r.body.redirect_uri = session_data.redirect_uri
                    /\ r.body.state = IF session_data.state = None
                                      THEN "" ELSE session_data.state

(* a session without client state has issued a code, and a callback for a   *)
(* live session with client state can issue another                        *)
C30_Witness ==
    /\ \E c \in DOMAIN origin : origin[c].session_data.state = None
    /\ \E e \in Endpoints, code \in ProviderCodes, state \in LiveSessions :
          /\ auth_sessions[state].data.state # None
          /\ \E r \in CallbackResults(e, code, state, None) : r.status = 200

-----------------------------------------------------------------------------
(* C31: the two stores are independent key spaces: an authorize request     *)
(* (the session operation) leaves the code store as it is; callbacks and    *)
(* /token requests (the code operations) leave the session store as it is;  *)
(* no identifier is a key of both stores; a session id presented as code to *)
(* /token gets 400 'Invalid or expired code', and a one-time code presented *)
(* as state to a callback gets 400 'Invalid auth session', both with the    *)
(* stores unchanged.                                                        *)
C31_IndependentKeySpaces ==
    /\ \A r \in AuthorizeResults : r.auth_codes = auth_codes
    /\ \A r \in AllCallbackResults \cup AllTokenResults :
          r.auth_sessions = auth_sessions
    /\ DOMAIN auth_sessions \cap DOMAIN auth_codes = {}
    /\ \A s \in DOMAIN auth_sessions, u \in BOOLEAN :
          \A r \in TokenResults("authorization_code", s, u) :
              /\ r.status = 400
              /\ r.detail = "Invalid or expired code"
              /\ r.auth_codes = auth_codes
    /\ \A c \in DOMAIN auth_codes, e \in Endpoints, code \in ProviderCodes :
          \A r \in CallbackResults(e, code, c, None) :
              /\ r.status = 400
              /\ r.detail = "Invalid auth session"
              /\ r.posts = <<>>
              /\ r.auth_codes = auth_codes

(* a session and a one-time code are both within their TTL, so that each    *)
(* identifier would be accepted at its own endpoint                         *)
C31_Witness ==
    /\ LiveSessions # {}
    /\ LiveCodes # {}
    /\ \E s \in LiveSessions : \A c \in DOMAIN origin : origin[c].session # s

-----------------------------------------------------------------------------
(* The environment variables the exchange with a provider needs *)
CredentialVars(endpoint) ==
    IF endpoint = "apple"
    THEN {"APPLE_CLIENT_ID", "APPLE_TEAM_ID", "APPLE_KEY_ID", "APPLE_PRIVATE_KEY"}
    ELSE {"GOOGLE_CLIENT_ID", "GOOGLE_CLIENT_SECRET"}

(* C32: a callback that resolves a session while one of the credentials of  *)
(* its provider is not configured (Apple: client id, team id, key id,       *)
(* private key; Google: client id, client secret) gets 500 with the         *)
(* provider's 'auth not configured' detail, posts nothing to the provider   *)
(* token endpoint and stores no code.                                       *)
C32_UnconfiguredExchangeIs500 ==
    \A e \in Endpoints, code \in ProviderCodes, state \in LiveSessions :
        ~(CredentialVars(e) \subseteq env) =>
            \A r \in CallbackResults(e, code, state, None) :
                /\ r.status = 500
                /\ r.detail = IF e = "apple" THEN "Apple auth not configured"
                              ELSE "Google auth not configured"
                /\ r.session = <<state>>
                /\ r.posts = <<>>
                /\ r.issued = <<>>
                /\ r.auth_codes = auth_codes

(* a session that a redirect has issued is within its TTL while a           *)
(* credential other than the client id of its provider is missing           *)
C32_Witness ==
    \E s \in LiveSessions :
        LET provider == auth_sessions[s].data.provider
        IN  /\ ClientIdVar(provider) \in env
            /\ ~(CredentialVars(provider) \subseteq env)
            /\ now > stored_at[s]

-----------------------------------------------------------------------------
(* C33: an authorize request that does not answer with the redirect,        *)
(* whatever the reason (unsupported provider, client identifier not         *)
(* configured), leaves the session store as it is, and every stored session *)
(* is one of a provider whose authorize requests answer with the redirect.  *)
C33_FailedAuthorizeStoresNothing ==
    /\ \A r \in AuthorizeResults :
          r.status # REDIRECT_STATUS => r.auth_sessions = auth_sessions
    /\ \A s \in DOMAIN auth_sessions :
          ClientIdVar(auth_sessions[s].data.provider) \in env

-----------------------------------------------------------------------------
(* The sessions that authorize requests have created *)
SessionsCreated == DOMAIN stored_at \ DOMAIN origin

(* C34: a flow whose steps succeed in time reaches REDEEMED, whatever other *)
(* flows have done in between: an authorize request that redirects stores   *)
(* its session for 300 s; as long as the TTL of a session has not lapsed, a *)
(* callback with its state that the provider answers with 200 and an        *)
(* id_token gets 200 and stores a code for 300 s; as long as the TTL of a   *)
(* code has not lapsed and the code has not been redeemed, a /token request *)
(* with it and grant_type authorization_code gets 200 with the tokens the   *)
(* provider gave for it.                                                    *)
C34_FlowReachesRedeemed ==
    /\ \A r \in AuthorizeResults :
          r.status = REDIRECT_STATUS =>
              /\ r.created # <<>>
              /\ r.created[1] \in DOMAIN r.auth_sessions
              /\ r.auth_sessions[r.created[1]].expires = now + SESSION_TTL
    /\ \A s \in SessionsCreated :
          ~Expired(s, SESSION_TTL) =>
              /\ s \in DOMAIN auth_sessions
              /\ \A e \in Endpoints, code \in ProviderCodes :
                    LET r == Callback(e, code, s, None,
                                      HttpReply(200, ProviderTokens(e, code)))
                    IN  /\ r.status = 200
                        /\ r.issued # <<>>
                        /\ r.issued[1] \in DOMAIN r.auth_codes
                        /\ r.auth_codes[r.issued[1]].expires = now + CODE_TTL
    /\ \A c \in DOMAIN origin :
          (c \notin DOMAIN grants /\ ~Expired(c, CODE_TTL)) =>
              /\ c \in DOMAIN auth_codes
              /\ \A u \in BOOLEAN :
                    \A r \in TokenResults("authorization_code", c, u) :
                        /\ r.status = 200
                        /\ r.body.provider = origin[c].endpoint
                        /\ r.body.id_token = TokensOf(c).id_token
                        /\ r.body.access_token = DictGet(TokensOf(c), "access_token")

(* a flow has gone through authorize, a later callback and a /token request *)
(* that got 200, while the session of another flow was in the store before  *)
(* its code was issued                                                      *)
C34_Witness ==
    \E c \in DOMAIN grants, s \in DOMAIN auth_sessions :
        /\ c \in DOMAIN origin
        /\ s # origin[c].session
        /\ stored_at[s] <= stored_at[c]
        /\ stored_at[c] > stored_at[origin[c].session]

-----------------------------------------------------------------------------
(* C35: delete on the code store is unconditional and idempotent: for every *)
(* key, be it stored and within its TTL, stored and expired, deleted before *)
(* or never stored, the store after the delete is the store without that    *)
(* key and with every other entry as it was; a key that is absent leaves    *)
(* the store as it is, and a second delete changes nothing more.            *)
C35_DeleteIdempotent ==
    \A k \in IdInputs :
        LET once == delete_auth_code(auth_codes, k)
        IN  /\ DOMAIN once = DOMAIN auth_codes \ {k}
            /\ \A j \in DOMAIN once : once[j] = auth_codes[j]
            /\ k \notin DOMAIN auth_codes => once = auth_codes
            /\ delete_auth_code(once, k) = once

(* the store holds a code whose TTL has lapsed, a code that a /token        *)
(* request has deleted is absent, and so is a key that was never a code     *)
C35_Witness ==
    /\ \E c \in DOMAIN auth_codes : Expired(c, CODE_TTL)
    /\ \E c \in DOMAIN grants : c \in DOMAIN origin /\ c \notin DOMAIN auth_codes
    /\ \E k \in IdInputs : k \notin DOMAIN origin

-----------------------------------------------------------------------------
(* The text of an entry: its content without the surrounding whitespace,    *)
(* empty when the entry has no content                                      *)
Text(mem) ==
    IF mem.content = <<>> THEN <<>>
    ELSE IF mem.content[1].t # "string" THEN <<>>
    ELSE strip(mem.content[1].s)

(* The category an entry counts as *)
CategoryOf(mem) ==
    IF mem.category = <<>> THEN "system"
    ELSE IF mem.category[1].t = "string" /\ mem.category[1].s = "interesting"
    THEN "interesting"
    ELSE "system"

(* An entry whose content is there and is not a string *)
IllTyped(memories) ==
    \E i \in 1..Len(memories) :
        memories[i].content # <<>> /\ memories[i].content[1].t # "string"

(* result is the entries of memories that have a text and are among the     *)
(* first two of their category to have one, in the order of memories, each  *)
(* with the category it counts as                                           *)
KeepsFirstTwo(memories, result) ==
    LET WithText == {i \in 1..Len(memories) : Text(memories[i]) # <<>>}
        Kept == {i \in WithText :
                    Cardinality({j \in WithText :
                        j < i /\ CategoryOf(memories[j]) = CategoryOf(memories[i])}) < 2}
        Nth(n) == CHOOSE i \in Kept : Cardinality({j \in Kept : j < i}) = n - 1
    IN  /\ Len(result) = Cardinality(Kept)
        /\ \A n \in 1..Len(result) :
              /\ result[n].content = Text(memories[Nth(n)])
              /\ result[n].category = CategoryOf(memories[Nth(n)])
        /\ \A category \in {"interesting", "system"} :
              Cardinality({n \in 1..Len(result) : result[n].category = category}) <= 2

(* C36, as claimed: for every list of entries the model has answered,       *)
(* extract_memories returns the first two entries of each category that     *)
(* have a content, in their order; entries without content are dropped and *)
(* do not count, an entry of another category counts and is returned as     *)
(* 'system'.                                                                *)
C36_KeepsFirstTwoOfEach ==
    extraction.returned # <<>> =>
        KeepsFirstTwo(extraction.memories, extraction.returned[1])

(* What extract_memories does keep: the first two of each category for      *)
(* every list whose entries have a string as content, or no content key;    *)
(* when the content of an entry is there and is not a string (null), it     *)
(* returns the empty list.                                                  *)
C36_KeepsFirstTwoOfEachString ==
    extraction.returned # <<>> =>
        IF IllTyped(extraction.memories)
        THEN extraction.returned[1] = <<>>
        ELSE KeepsFirstTwo(extraction.memories, extraction.returned[1])

(* five entries, all with string or no content: the first has no text,      *)
(* three of category 'interesting' have one, one has another category;      *)
(* three entries have been returned                                         *)
C36_ThirdDropped ==
    /\ extraction.returned # <<>>
    /\ ~IllTyped(extraction.memories)
    /\ Len(extraction.memories) = MaxMemories
    /\ Text(extraction.memories[1]) = <<>>
    /\ Cardinality({i \in 1..Len(extraction.memories) :
                       /\ Text(extraction.memories[i]) # <<>>
                       /\ CategoryOf(extraction.memories[i]) = "interesting"}) = 3
    /\ \E i \in 1..Len(extraction.memories) :
          extraction.memories[i].category = <<JsonString("personal")>>
    /\ Len(extraction.returned[1]) = 3

====
